---------------------------- MODULE JsonProtocol ----------------------------
(***************************************************************************)
(* json_protocol.cpp: DeserializeRequest turns a JSON document into a      *)
(* request packet or throws, and SerializeResponse turns the response to   *)
(* it into a JSON document.                                                *)
(*                                                                         *)
(* One step is one at(key) with the conversion of what it found: the order *)
(* of these steps decides which exception a bad document meets.  The       *)
(* conversions are nlohmann's: an enum takes its first value for anything  *)
(* it does not know, a number is cut to the width of its field, a boolean  *)
(* passes for a number in id but not in address and length.                *)
(*                                                                         *)
(* A JSON value is a record of its type and its string or number.          *)
(* Floating-point numbers are left out: converting one that does not fit   *)
(* is undefined.                                                           *)
(***************************************************************************)
EXTENDS Integers, Sequences

CONSTANTS
    IdModulus,    \* number of values of u32 id
    WordModulus,  \* number of values of u64 address and length
    Documents     \* the documents clients send

NoText == ""
Str(s) == [type |-> "string", s |-> s, n |-> 0]
Num(n) == [type |-> "number", s |-> NoText, n |-> n]
Bool(n) == [type |-> "boolean", s |-> NoText, n |-> n]
Absent == [type |-> "absent", s |-> NoText, n |-> 0]

TopKeys == {"jsonrpc", "id", "method"}
ParamKeys == {"timing", "sync", "function", "address", "length", "data"}

\* json::parse fails for text that is no JSON; at() fails unless it is applied to an object;
\* params may be missing or no object.
JsonValue ==
    {v \in [type : {"string", "number", "boolean", "absent"}, s : STRING, n : Int] :
        /\ v.type # "string" => v.s = NoText
        /\ v.type \in {"string", "absent"} => v.n = 0
        /\ v.type = "boolean" => v.n \in {0, 1}}
Document == [parses : BOOLEAN, object : BOOLEAN, top : [TopKeys -> JsonValue],
             paramsObject : BOOLEAN, params : [ParamKeys -> JsonValue]]

ASSUME JsonAssumption ==
    /\ IdModulus \in Nat \ {0} /\ WordModulus \in Nat \ {0}
    /\ Documents \subseteq Document

\* NLOHMANN_JSON_SERIALIZE_ENUM: pairs of the enum's value and its name.
TimingTable == << <<"Immediate", "immediate">>, <<"FrameEnd", "frame_end">>,
                  <<"MemoryAccess", "memory_access">>, <<"GPUAccess", "gpu_access">>,
                  <<"SpecialAccess", "special_access">> >>
MethodTable == << <<"Command", "command">>, <<"MemoryRead", "memory_read">>,
                  <<"MemoryWrite", "memory_write">>, <<"GPURead", "gpu_read">>,
                  <<"GPUWrite", "gpu_write">>, <<"SpecialRead", "special_read">>,
                  <<"SpecialWrite", "special_write">> >>
SyncTable == << <<"Blocking", "blocking">>, <<"NonBlocking", "nonblocking">> >>
FunctionTable == << <<"Once", "once">>, <<"Conditional", "conditional">>,
                    <<"Callback", "callback">> >>

Table(key) ==
    CASE key = "timing" -> TimingTable
      [] key = "method" -> MethodTable
      [] key = "sync" -> SyncTable
      [] key = "function" -> FunctionTable

EnumKeys == {"method", "timing", "sync", "function"}
Names(table) == {table[i][2] : i \in DOMAIN table}
Known(key, v) == v.type = "string" /\ v.s \in Names(Table(key))

\* from_json of an enum: the pair with this name, or else the first pair.
ToEnum(table, v) ==
    IF v.type = "string" /\ v.s \in Names(table)
    THEN (CHOOSE p \in {table[i] : i \in DOMAIN table} : p[2] = v.s)[1]
    ELSE table[1][1]

VARIABLES
    doc,      \* the document
    todo,     \* the keys DeserializeRequest still reads, in order
    packet,   \* the fields it has filled
    outcome,  \* running, packet, or the exception it threw
    reply     \* the response document

vars == <<doc, todo, packet, outcome, reply>>

NoReply == Absent
Header == <<"jsonrpc", "method">>
BaseKeys == <<"id", "timing", "sync", "function">>

Init ==
    /\ doc \in Documents
    /\ todo = <<"parse">> \o Header
    /\ packet = <<>>
    /\ outcome = "running"
    /\ reply = NoReply

-----------------------------------------------------------------------------
\* What at(key) finds.
Value(key) == IF key \in TopKeys THEN doc.top[key] ELSE doc.params[key]

\* at(key) throws: the key is missing, or it is looked up in something that is no object.
AtThrows(key) ==
    \/ ~doc.object
    \/ key \in ParamKeys /\ ~doc.paramsObject
    \/ Value(key) = Absent

\* The types of JSON that pass for a number.
NumberTypes(key) == IF key = "id" THEN {"number", "boolean"} ELSE {"number"}

Modulus(key) == IF key = "id" THEN IdModulus ELSE WordModulus

\* get_to() throws: a number or a string was expected.
GetThrows(key) ==
    \/ key \in {"id", "address", "length"} /\ Value(key).type \notin NumberTypes(key)
    \/ key = "data" /\ Value(key).type # "string"

NumberUnchecked(key, v) == v.n
\* A number in the width of its field.
Number(key, v) == v.n % Modulus(key)

\* What get_to() stores.  A text that is good base64 stands for its data.
Converted(key) ==
    IF key \in EnumKeys THEN ToEnum(Table(key), Value(key))
    ELSE IF key = "data" THEN <<"DecodeBase64", Value(key).s>>
    ELSE Number(key, Value(key))

Stop(how) ==
    /\ outcome' = how
    /\ UNCHANGED <<doc, todo, packet, reply>>

GoOn(keys) ==
    /\ todo' = keys
    /\ UNCHANGED <<doc, outcome, reply>>

Reads(key) == outcome = "running" /\ todo # <<>> /\ Head(todo) = key
Store(key) == packet' = [k \in DOMAIN packet \cup {key} |-> IF k = key THEN Converted(key) ELSE packet[k]]

\* json::parse
Parse ==
    /\ Reads("parse")
    /\ \/ ~doc.parses /\ Stop("json_exception")
       \/ doc.parses /\ GoOn(Tail(todo)) /\ UNCHANGED packet

\* if (j.at("jsonrpc") != "2.0") throw version_mismatch_error
CheckVersion ==
    /\ Reads("jsonrpc")
    /\ \/ AtThrows("jsonrpc") /\ Stop("json_exception")
       \/ ~AtThrows("jsonrpc") /\ Value("jsonrpc") # Str("2.0") /\ Stop("version_mismatch_error")
       \/ ~AtThrows("jsonrpc") /\ Value("jsonrpc") = Str("2.0") /\ GoOn(Tail(todo)) /\ UNCHANGED packet

OwnKeysShort(m) == IF m = "MemoryWrite" THEN <<"data">> ELSE <<"address", "length">>
\* The keys that from_json reads after the base packet.
OwnKeys(m) == IF m = "MemoryWrite" THEN <<"data", "address">> ELSE <<"address", "length">>

\* The method decides which packet is filled; FromBasePacket reads it again from the same document.
CheckMethod ==
    LET m == Converted("method") IN
    /\ Reads("method")
    /\ \/ AtThrows("method") /\ Stop("json_exception")
       \/ /\ ~AtThrows("method") /\ m \notin {"MemoryRead", "MemoryWrite"}
          /\ Stop("invalid_method_error")
       \/ /\ ~AtThrows("method") /\ m \in {"MemoryRead", "MemoryWrite"}
          /\ Store("method")
          /\ GoOn(BaseKeys \o OwnKeys(m))

\* FromBasePacket and from_json: one field.
ReadField(key) ==
    /\ Reads(key)
    /\ \/ (IF AtThrows(key) THEN TRUE ELSE GetThrows(key)) /\ Stop("json_exception")
       \/ /\ ~AtThrows(key) /\ ~GetThrows(key)
          /\ key = "data" /\ Value(key).s = "bad" /\ Stop("dataflow_exception")
       \/ /\ ~AtThrows(key) /\ ~GetThrows(key) /\ ~(key = "data" /\ Value(key).s = "bad")
          /\ Store(key)
          /\ GoOn(Tail(todo))

Return == outcome = "running" /\ todo = <<>> /\ Stop("packet")

ResponseDocumentNoId ==
    [jsonrpc |-> Str("2.0"), id |-> Num(0),
     result |-> IF packet["method"] = "MemoryRead" THEN Str("EncodeBase64") ELSE Str(NoText)]

\* HandleRequest constructs the response with the id of the request and without an
\* error; to_json of the response adds the result: the encoded memory, or nothing.
ResponseDocument ==
    [jsonrpc |-> Str("2.0"), id |-> Num(packet["id"]),
     result |-> IF packet["method"] = "MemoryRead" THEN Str("EncodeBase64") ELSE Str(NoText)]

SerializeResponse ==
    /\ outcome = "packet" /\ reply = NoReply
    /\ reply' = ResponseDocument
    /\ UNCHANGED <<doc, todo, packet, outcome>>

Next ==
    \/ Parse \/ CheckVersion \/ CheckMethod
    \/ \E key \in {"id"} \cup ParamKeys : ReadField(key)
    \/ Return \/ SerializeResponse

Spec == Init /\ [][Next]_vars

-----------------------------------------------------------------------------
(* Properties. *)

\* The fields a request of method m must have.
Required(m) ==
    {"id", "timing", "sync", "function", "address"}
        \cup (IF m = "memory_write" THEN {"data"} ELSE {"length"})

\* What the structure of a document deserves, said without the order of the steps: the
\* version comes before the method and the method before all other fields; then every field
\* must be there and convertible, and a bad base64 text is met only if the base packet is
\* complete.
ByStructure ==
    LET m == doc.top["method"]
        fields == Required(m.s)
        flawed == {k \in fields : IF AtThrows(k) THEN TRUE ELSE GetThrows(k)}
    IN  CASE ~doc.parses \/ ~doc.object \/ doc.top["jsonrpc"] = Absent -> "json_exception"
          [] OTHER ->
        CASE doc.top["jsonrpc"] # Str("2.0") -> "version_mismatch_error"
          [] OTHER ->
        CASE m = Absent -> "json_exception"
          [] m \notin {Absent, Str("memory_read"), Str("memory_write")} -> "invalid_method_error"
          [] OTHER ->
        CASE flawed = {} -> IF m.s = "memory_write" /\ doc.params["data"].s = "bad"
                            THEN "dataflow_exception" ELSE "packet"
          [] flawed # {} -> IF m.s = "memory_write" /\ flawed = {"address"} /\ doc.params["data"].s = "bad"
                            THEN "dataflow_exception" ELSE "json_exception"

\* A timing, sync or function that is there and that the protocol does not know.
UnknownName ==
    \E k \in EnumKeys \ {"method"} : doc.params[k] # Absent /\ ~Known(k, doc.params[k])

\* What a document deserves: a packet needs the names of the protocol, too.
Deserved ==
    IF ByStructure = "packet" /\ UnknownName THEN "invalid_header" ELSE ByStructure

\* DeserializeRequest accepts what is complete and throws the exception that the document
\* deserves, and nothing else leaves it; of a document whose only flaw is an unknown name
\* HeaderChecked speaks.
Classified == outcome # "running" /\ Deserved # "invalid_header" => outcome = Deserved

\* An accepted packet has exactly the fields of its method; a field whose name or number
\* the protocol knows has the value the client gave it.
Faithful ==
    outcome = "packet" =>
        /\ DOMAIN packet = {"method"} \cup Required(doc.top["method"].s)
        /\ \A k \in DOMAIN packet \cap EnumKeys :
              Known(k, Value(k)) => <<packet[k], Value(k).s>> \in {Table(k)[i] : i \in DOMAIN Table(k)}
        /\ \A k \in DOMAIN packet \cap {"id", "address", "length"} :
              /\ packet[k] \in 0 .. Modulus(k) - 1
              /\ Value(k).n \in 0 .. Modulus(k) - 1 => packet[k] = Value(k).n

\* The reply to a request carries the id the client sent, if that is a number of 32 bits.
IdEchoed ==
    reply # NoReply =>
        (doc.top["id"].type = "number" /\ doc.top["id"].n \in 0 .. IdModulus - 1
            => reply.id = doc.top["id"])

-----------------------------------------------------------------------------
(* What a comment of the repository says and the code does not do. *)

\* protocol.h: InvalidHeader is the error "If any of the client header fields do not match
\* any enum values"; DeserializeRequest does not accept such a request.
HeaderChecked == Deserved = "invalid_header" => outcome # "packet"
=============================================================================
