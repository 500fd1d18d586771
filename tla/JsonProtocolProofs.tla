------------------------- MODULE JsonProtocolProofs -------------------------
(***************************************************************************)
(* Theorems about JsonProtocol: what DeserializeRequest and                *)
(* SerializeResponse make of any document whatsoever.                      *)
(***************************************************************************)
EXTENDS JsonProtocol, SequenceTheorems, TLAPS

-----------------------------------------------------------------------------
(* JSON values and enumerations. *)

LEMMA ValueFacts ==
    ASSUME NEW v \in JsonValue
    PROVE  /\ v.type = "string" => v = Str(v.s)
           /\ v.type = "number" => v = Num(v.n)
           /\ v.n \in Int
BY DEF JsonValue, Str, Num

\* A table that lists the names of an enum.
IsTable(t) == \A i \in DOMAIN t : t[i] = <<t[i][1], t[i][2]>>

LEMMA Tables ==
    ASSUME NEW key \in EnumKeys
    PROVE  IsTable(Table(key))
<1>1. IsTable(TimingTable)
  BY DEF IsTable, TimingTable
<1>2. IsTable(MethodTable)
  BY DEF IsTable, MethodTable
<1>3. IsTable(SyncTable)
  BY DEF IsTable, SyncTable
<1>4. IsTable(FunctionTable)
  BY DEF IsTable, FunctionTable
<1> QED
  BY <1>1, <1>2, <1>3, <1>4 DEF EnumKeys, Table

\* A name that the table has is converted to the value next to it.
LEMMA EnumFound ==
    ASSUME NEW t, IsTable(t), NEW v \in JsonValue, v.type = "string", v.s \in Names(t)
    PROVE  <<ToEnum(t, v), v.s>> \in {t[i] : i \in DOMAIN t}
<1> DEFINE S == {t[i] : i \in DOMAIN t}
           p == CHOOSE q \in S : q[2] = v.s
<1>1. \E q \in S : q[2] = v.s
  BY DEF Names
<1>2. p \in S /\ p[2] = v.s
  BY <1>1
<1>4. p = <<p[1], p[2]>>
  BY <1>2 DEF IsTable
<1>5. ToEnum(t, v) = p[1]
  BY DEF ToEnum
<1> QED
  BY <1>2, <1>4, <1>5

LEMMA MethodNames ==
    {MethodTable[i] : i \in DOMAIN MethodTable} =
        {<<"Command", "command">>, <<"MemoryRead", "memory_read">>, <<"MemoryWrite", "memory_write">>,
         <<"GPURead", "gpu_read">>, <<"GPUWrite", "gpu_write">>, <<"SpecialRead", "special_read">>,
         <<"SpecialWrite", "special_write">>}
BY DEF MethodTable

\* The two methods that have packets are met exactly under their own names.
LEMMA MethodFacts ==
    ASSUME NEW v \in JsonValue
    PROVE  /\ ToEnum(MethodTable, v) = "MemoryRead" <=> v = Str("memory_read")
           /\ ToEnum(MethodTable, v) = "MemoryWrite" <=> v = Str("memory_write")
<1>1. IsTable(MethodTable)
  BY DEF IsTable, MethodTable
<1>2. CASE v.type = "string" /\ v.s \in Names(MethodTable)
  <2>1. <<ToEnum(MethodTable, v), v.s>> \in {MethodTable[i] : i \in DOMAIN MethodTable}
    BY <1>1, <1>2, EnumFound
  <2>2. ToEnum(MethodTable, v) = "MemoryRead" <=> v.s = "memory_read"
    BY <2>1, MethodNames
  <2>3. ToEnum(MethodTable, v) = "MemoryWrite" <=> v.s = "memory_write"
    BY <2>1, MethodNames
  <2>4. v = Str(v.s) /\ Str("memory_read").s = "memory_read" /\ Str("memory_write").s = "memory_write"
    BY <1>2, ValueFacts DEF Str
  <2> QED BY <2>2, <2>3, <2>4
<1>3. CASE ~(v.type = "string" /\ v.s \in Names(MethodTable))
  <2>1. MethodTable[1][1] = "Command"
    BY DEF MethodTable
  <2>2. ToEnum(MethodTable, v) = "Command"
    BY <1>3, <2>1 DEF ToEnum
  <2>3. MethodTable[2][2] = "memory_read" /\ MethodTable[3][2] = "memory_write" /\ {2, 3} \subseteq DOMAIN MethodTable
    BY DEF MethodTable
  <2>4. "memory_read" \in Names(MethodTable) /\ "memory_write" \in Names(MethodTable)
    BY <2>3 DEF Names
  <2>5. v # Str("memory_read") /\ v # Str("memory_write")
    BY <1>3, <2>4 DEF Str
  <2> QED BY <2>2, <2>5
<1> QED
  BY <1>2, <1>3

-----------------------------------------------------------------------------
(* The keys of a packet, in the order in which they are read. *)

Elements(t) == {t[i] : i \in DOMAIN t}

\* What is left at each moment of the base packet's keys and the own keys x and y.
Suffixes(x, y) ==
    { <<"id", "timing", "sync", "function", x, y>>, <<"timing", "sync", "function", x, y>>,
      <<"sync", "function", x, y>>, <<"function", x, y>>, <<x, y>>, <<y>>, <<>> }

Fields(x, y) == {"id", "timing", "sync", "function", x, y}

\* What reading the next key of t does to the keys left.
Advances(x, y, t) ==
    /\ Tail(t) \in Suffixes(x, y)
    /\ Head(t) \in Fields(x, y) /\ Head(t) \notin Elements(Tail(t))
    /\ Elements(t) = {Head(t)} \cup Elements(Tail(t))
    /\ Head(t) = x => Elements(t) = {x, y}
    /\ Head(t) = y => Elements(t) = {y}

LEMMA Chain ==
    ASSUME NEW x, NEW y, x # y, {x, y} \cap {"id", "timing", "sync", "function"} = {},
           NEW t \in Suffixes(x, y), t # <<>>
    PROVE  Advances(x, y, t)
<1>1. CASE t = <<"id", "timing", "sync", "function", x, y>>
  <2>1. Head(t) = "id" /\ Tail(t) = <<"timing", "sync", "function", x, y>>
    BY <1>1
  <2>2. Elements(t) = {"id", "timing", "sync", "function", x, y} /\ Elements(Tail(t)) = {"timing", "sync", "function", x, y}
    BY <1>1, <2>1 DEF Elements
  <2>3. Tail(t) \in Suffixes(x, y)
    BY <2>1 DEF Suffixes
  <2> QED BY <2>1, <2>2, <2>3 DEF Advances, Fields
<1>2. CASE t = <<"timing", "sync", "function", x, y>>
  <2>1. Head(t) = "timing" /\ Tail(t) = <<"sync", "function", x, y>>
    BY <1>2
  <2>2. Elements(t) = {"timing", "sync", "function", x, y} /\ Elements(Tail(t)) = {"sync", "function", x, y}
    BY <1>2, <2>1 DEF Elements
  <2>3. Tail(t) \in Suffixes(x, y)
    BY <2>1 DEF Suffixes
  <2> QED BY <2>1, <2>2, <2>3 DEF Advances, Fields
<1>3. CASE t = <<"sync", "function", x, y>>
  <2>1. Head(t) = "sync" /\ Tail(t) = <<"function", x, y>>
    BY <1>3
  <2>2. Elements(t) = {"sync", "function", x, y} /\ Elements(Tail(t)) = {"function", x, y}
    BY <1>3, <2>1 DEF Elements
  <2>3. Tail(t) \in Suffixes(x, y)
    BY <2>1 DEF Suffixes
  <2> QED BY <2>1, <2>2, <2>3 DEF Advances, Fields
<1>4. CASE t = <<"function", x, y>>
  <2>1. Head(t) = "function" /\ Tail(t) = <<x, y>>
    BY <1>4
  <2>2. Elements(t) = {"function", x, y} /\ Elements(Tail(t)) = {x, y}
    BY <1>4, <2>1 DEF Elements
  <2>3. Tail(t) \in Suffixes(x, y)
    BY <2>1 DEF Suffixes
  <2> QED BY <2>1, <2>2, <2>3 DEF Advances, Fields
<1>5. CASE t = <<x, y>>
  <2>1. Head(t) = x /\ Tail(t) = <<y>>
    BY <1>5
  <2>2. Elements(t) = {x, y} /\ Elements(Tail(t)) = {y}
    BY <1>5, <2>1 DEF Elements
  <2>3. Tail(t) \in Suffixes(x, y)
    BY <2>1 DEF Suffixes
  <2> QED BY <2>1, <2>2, <2>3 DEF Advances, Fields
<1>6. CASE t = <<y>>
  <2>1. Head(t) = y /\ Tail(t) = <<>>
    BY <1>6
  <2>2. Elements(t) = {y} /\ Elements(Tail(t)) = {}
    BY <1>6, <2>1 DEF Elements
  <2>3. Tail(t) \in Suffixes(x, y)
    BY <2>1 DEF Suffixes
  <2> QED BY <2>1, <2>2, <2>3 DEF Advances, Fields
<1> QED
  BY <1>1, <1>2, <1>3, <1>4, <1>5, <1>6 DEF Suffixes

\* FromBasePacket comes first, whatever the method.
LEMMA WholeChain ==
    /\ BaseKeys \o OwnKeys("MemoryWrite") = <<"id", "timing", "sync", "function", "data", "address">>
    /\ BaseKeys \o OwnKeys("MemoryRead") = <<"id", "timing", "sync", "function", "address", "length">>
<1>1. ASSUME NEW x, NEW y
      PROVE  <<"id", "timing", "sync", "function">> \o <<x, y>> = <<"id", "timing", "sync", "function", x, y>>
  <2> DEFINE s == <<"id", "timing", "sync", "function">> \o <<x, y>>
             t == <<"id", "timing", "sync", "function", x, y>>
             S == {"id", "timing", "sync", "function", x, y}
  <2>1. s \in Seq(S) /\ t \in Seq(S) /\ Len(s) = 6 /\ Len(t) = 6
    OBVIOUS
  <2>2. \A i \in 1 .. 6 : i \in {1, 2, 3, 4, 5, 6}
    OBVIOUS
  <2>3. s[1] = t[1] /\ s[2] = t[2] /\ s[3] = t[3] /\ s[4] = t[4] /\ s[5] = t[5] /\ s[6] = t[6]
    OBVIOUS
  <2> HIDE DEF s, t, S
  <2>4. \A i \in 1 .. 6 : s[i] = t[i]
    BY <2>2, <2>3
  <2>5. s = t
    BY <2>1, <2>4
  <2> QED BY <2>5 DEF s, t
<1> QED
  BY <1>1 DEF BaseKeys, OwnKeys

-----------------------------------------------------------------------------
(* The invariant. *)

Writing == doc.top["method"] = Str("memory_write")
FirstOwn == IF Writing THEN "data" ELSE "address"
SecondOwn == IF Writing THEN "address" ELSE "length"
AllFields == Fields(FirstOwn, SecondOwn)

\* at() and get_to() throw for a field, or the base64 iterators do.
Flawed(k) == AtThrows(k) \/ GetThrows(k)
Good(k) == ~Flawed(k) /\ ~(k = "data" /\ Value(k).s = "bad")

HeaderRead == doc.parses /\ ~AtThrows("jsonrpc") /\ Value("jsonrpc") = Str("2.0")
MethodRead == HeaderRead /\ ~AtThrows("method") /\ doc.top["method"] \in {Str("memory_read"), Str("memory_write")}

\* The keys read so far were good, and the packet has what they were converted to.
Filling ==
    /\ MethodRead
    /\ todo \in Suffixes(FirstOwn, SecondOwn)
    /\ \A k \in AllFields \ Elements(todo) : Good(k)
    /\ DOMAIN packet = {"method"} \cup (AllFields \ Elements(todo))
    /\ \A k \in DOMAIN packet : packet[k] = Converted(k)

Progress ==
    \/ todo = <<"parse", "jsonrpc", "method">> /\ packet = <<>>
    \/ todo = <<"jsonrpc", "method">> /\ packet = <<>> /\ doc.parses
    \/ todo = <<"method">> /\ packet = <<>> /\ HeaderRead
    \/ Filling

\* What the codec does: it decides by the structure of the document alone.
Decided == outcome # "running" => outcome = ByStructure

CodecInv ==
    /\ doc \in Document
    /\ outcome = "running" => Progress
    /\ Decided
    /\ outcome = "packet" => Filling /\ todo = <<>>
    /\ reply # NoReply => outcome = "packet" /\ reply.id = Num(packet["id"])

LEMMA OwnKeysFacts ==
    /\ FirstOwn # SecondOwn
    /\ {FirstOwn, SecondOwn} \cap {"id", "timing", "sync", "function"} = {}
    /\ Writing => FirstOwn = "data" /\ SecondOwn = "address"
    /\ ~Writing => FirstOwn = "address" /\ SecondOwn = "length"
BY DEF FirstOwn, SecondOwn

LEMMA RequiredFields ==
    ASSUME MethodRead
    PROVE  Required(doc.top["method"].s) = AllFields /\ (doc.top["method"].s = "memory_write" <=> Writing)
<1>1. CASE Writing
  <2>1. doc.top["method"].s = "memory_write"
    BY <1>1 DEF Writing, Str
  <2>2. AllFields = {"id", "timing", "sync", "function", "data", "address"}
    BY <1>1 DEF AllFields, Fields, FirstOwn, SecondOwn
  <2> QED BY <1>1, <2>1, <2>2 DEF Required
<1>2. CASE ~Writing
  <2>1. doc.top["method"].s = "memory_read"
    BY <1>2 DEF Writing, Str, MethodRead
  <2>2. AllFields = {"id", "timing", "sync", "function", "address", "length"}
    BY <1>2 DEF AllFields, Fields, FirstOwn, SecondOwn
  <2> QED BY <1>2, <2>1, <2>2 DEF Required
<1> QED
  BY <1>1, <1>2

LEMMA ValueTypes ==
    ASSUME doc \in Document
    PROVE  /\ \A k \in TopKeys \cup ParamKeys : Value(k) \in JsonValue
           /\ Value("jsonrpc") = doc.top["jsonrpc"] /\ Value("method") = doc.top["method"] /\ Value("id") = doc.top["id"]
           /\ Value("data") = doc.params["data"]
           /\ {"parses", "object", "paramsObject"} \subseteq DOMAIN doc /\ doc.parses \in BOOLEAN /\ doc.object \in BOOLEAN
BY DEF Document, Value, TopKeys, ParamKeys

\* What documents deserve that fail before the method is known.
LEMMA HeaderDeserves ==
    ASSUME doc \in Document
    PROVE  /\ ~doc.parses \/ AtThrows("jsonrpc") => ByStructure = "json_exception"
           /\ doc.parses /\ ~AtThrows("jsonrpc") /\ Value("jsonrpc") # Str("2.0") => ByStructure = "version_mismatch_error"
           /\ HeaderRead /\ AtThrows("method") => ByStructure = "json_exception"
           /\ HeaderRead /\ ~AtThrows("method") /\ doc.top["method"] \notin {Str("memory_read"), Str("memory_write")}
                 => ByStructure = "invalid_method_error"
<1>1. Value("jsonrpc") = doc.top["jsonrpc"] /\ Value("method") = doc.top["method"]
  BY ValueTypes
<1>2. "jsonrpc" \notin ParamKeys /\ "method" \notin ParamKeys
  BY DEF ParamKeys
<1>3. /\ AtThrows("jsonrpc") <=> ~doc.object \/ doc.top["jsonrpc"] = Absent
      /\ AtThrows("method") <=> ~doc.object \/ doc.top["method"] = Absent
  BY <1>1, <1>2 DEF AtThrows
<1>4. ~doc.parses \/ AtThrows("jsonrpc") => ByStructure = "json_exception"
  BY <1>3 DEF ByStructure
<1>5. doc.parses /\ ~AtThrows("jsonrpc") /\ Value("jsonrpc") # Str("2.0") => ByStructure = "version_mismatch_error"
  BY <1>1, <1>3 DEF ByStructure
<1>6. HeaderRead /\ AtThrows("method") => ByStructure = "json_exception"
  BY <1>1, <1>3 DEF ByStructure, HeaderRead
<1>7. HeaderRead /\ ~AtThrows("method") /\ doc.top["method"] \notin {Str("memory_read"), Str("memory_write")}
         => ByStructure = "invalid_method_error"
  BY <1>1, <1>3 DEF ByStructure, HeaderRead
<1> QED
  BY <1>4, <1>5, <1>6, <1>7

\* What the others deserve, by the fields that are flawed.
LEMMA FieldsDeserve ==
    ASSUME doc \in Document, MethodRead
    PROVE  LET flawed == {k \in AllFields : Flawed(k)}
               bad == Writing /\ Value("data").s = "bad"
           IN  ByStructure = IF flawed = {} THEN IF bad THEN "dataflow_exception" ELSE "packet"
                          ELSE IF flawed = {"address"} /\ bad THEN "dataflow_exception" ELSE "json_exception"
<1> DEFINE m == doc.top["method"]
           flawed == {k \in AllFields : Flawed(k)}
           bad == Writing /\ Value("data").s = "bad"
<1>1. Value("jsonrpc") = doc.top["jsonrpc"] /\ Value("method") = m /\ Value("data") = doc.params["data"]
  BY ValueTypes
<1>2. "jsonrpc" \notin ParamKeys /\ "method" \notin ParamKeys
  BY DEF ParamKeys
<1>3. doc.parses /\ doc.object /\ doc.top["jsonrpc"] # Absent /\ doc.top["jsonrpc"] = Str("2.0")
  BY <1>1, <1>2 DEF MethodRead, HeaderRead, AtThrows
<1>4. m # Absent /\ m \in {Str("memory_read"), Str("memory_write")}
  BY <1>1, <1>2 DEF MethodRead, AtThrows
<1>5. {k \in Required(m.s) : IF AtThrows(k) THEN TRUE ELSE GetThrows(k)} = flawed
  BY RequiredFields DEF Flawed
<1>6. m.s = "memory_write" <=> Writing
  BY RequiredFields
<1> HIDE DEF m, flawed
<1>7. ByStructure = CASE flawed = {} -> IF m.s = "memory_write" /\ doc.params["data"].s = "bad"
                                     THEN "dataflow_exception" ELSE "packet"
                   [] flawed # {} -> IF m.s = "memory_write" /\ flawed = {"address"} /\ doc.params["data"].s = "bad"
                                     THEN "dataflow_exception" ELSE "json_exception"
  BY <1>3, <1>4, <1>5 DEF ByStructure, m
<1> QED
  BY <1>1, <1>6, <1>7 DEF flawed

LEMMA CodecInit == Init => CodecInv
<1> SUFFICES ASSUME Init PROVE CodecInv
  OBVIOUS
<1>1. <<"parse">> \o <<"jsonrpc", "method">> = <<"parse", "jsonrpc", "method">>
  <2> DEFINE s == <<"parse">> \o <<"jsonrpc", "method">>
             t == <<"parse", "jsonrpc", "method">>
             S == {"parse", "jsonrpc", "method"}
  <2>1. s \in Seq(S) /\ t \in Seq(S) /\ Len(s) = 3 /\ Len(t) = 3
    OBVIOUS
  <2>2. s[1] = t[1] /\ s[2] = t[2] /\ s[3] = t[3] /\ \A i \in 1 .. 3 : i \in {1, 2, 3}
    OBVIOUS
  <2> HIDE DEF s, t, S
  <2>3. \A i \in 1 .. 3 : s[i] = t[i]
    BY <2>2
  <2>4. s = t
    BY <2>1, <2>3
  <2> QED BY <2>4 DEF s, t
<1>2. todo = <<"parse", "jsonrpc", "method">> /\ packet = <<>>
  BY <1>1 DEF Init, Header
<1> QED
  BY <1>2, JsonAssumption DEF Init, CodecInv, Progress, Decided

\* The document, and all that depends on it alone, never changes.
LEMMA DocumentStays ==
    ASSUME UNCHANGED doc
    PROVE  /\ ByStructure' = ByStructure /\ (MethodRead' <=> MethodRead) /\ (HeaderRead' <=> HeaderRead)
           /\ FirstOwn' = FirstOwn /\ SecondOwn' = SecondOwn /\ AllFields' = AllFields
           /\ \A k : (Good(k)' <=> Good(k)) /\ Converted(k)' = Converted(k)
<1>1. \A k : Value(k)' = Value(k)
  BY DEF Value
<1>2. \A k : (AtThrows(k)' <=> AtThrows(k)) /\ (GetThrows(k)' <=> GetThrows(k))
  BY <1>1 DEF AtThrows, GetThrows
<1>3. \A k : (Good(k)' <=> Good(k)) /\ Converted(k)' = Converted(k)
  BY <1>1, <1>2 DEF Good, Flawed, Converted, Number
<1>4. FirstOwn' = FirstOwn /\ SecondOwn' = SecondOwn /\ AllFields' = AllFields
  BY DEF FirstOwn, SecondOwn, AllFields, Writing
<1>5. (MethodRead' <=> MethodRead) /\ (HeaderRead' <=> HeaderRead)
  BY <1>1, <1>2 DEF MethodRead, HeaderRead
<1>6. ByStructure' = ByStructure
  BY <1>2 DEF ByStructure
<1> QED
  BY <1>3, <1>4, <1>5, <1>6

\* An exception, or the packet, ends DeserializeRequest with what the document deserves.
LEMMA StopKeeps ==
    ASSUME CodecInv, outcome = "running", NEW how, Stop(how), how = ByStructure, how # "running",
           how = "packet" => Filling /\ todo = <<>>
    PROVE  CodecInv'
<1>1. UNCHANGED <<doc, todo, packet, reply>> /\ outcome' = how /\ reply = NoReply
  BY DEF Stop, CodecInv
<1>2. ByStructure' = ByStructure /\ (Filling' <=> Filling)
  BY <1>1, DocumentStays DEF Filling
<1> QED
  BY <1>1, <1>2 DEF CodecInv, Decided, NoReply

\* A key was read and the next ones are to be read.
LEMMA GoOnKeeps ==
    ASSUME CodecInv, outcome = "running", UNCHANGED <<doc, outcome, reply>>, Progress'
    PROVE  CodecInv'
BY DEF CodecInv, Decided, NoReply

LEMMA HeaderStep ==
    ASSUME CodecInv, Parse \/ CheckVersion
    PROVE  CodecInv'
<1>1. doc \in Document /\ outcome = "running" /\ Progress /\ todo # <<>>
  BY DEF CodecInv, Parse, CheckVersion, Reads
<1>2. Filling /\ todo # <<>> => Head(todo) \in {"id", "timing", "sync", "function", "data", "address", "length"}
  BY Chain, OwnKeysFacts DEF Filling, Advances, Fields, FirstOwn, SecondOwn
<1>3. CASE Parse
  <2>1. todo = <<"parse", "jsonrpc", "method">> /\ packet = <<>>
    BY <1>1, <1>2, <1>3 DEF Parse, Reads, Progress
  <2>2. CASE ~doc.parses /\ Stop("json_exception")
    BY <1>1, <2>2, HeaderDeserves, StopKeeps
  <2>3. CASE doc.parses /\ GoOn(Tail(todo)) /\ UNCHANGED packet
    <3>1. todo' = <<"jsonrpc", "method">> /\ UNCHANGED <<doc, outcome, reply, packet>>
      BY <2>1, <2>3 DEF GoOn
    <3>2. Progress'
      BY <2>1, <2>3, <3>1 DEF Progress
    <3> QED BY <1>1, <3>1, <3>2, GoOnKeeps
  <2> QED BY <1>3, <2>2, <2>3 DEF Parse
<1>4. CASE CheckVersion
  <2>1. todo = <<"jsonrpc", "method">> /\ packet = <<>> /\ doc.parses
    BY <1>1, <1>2, <1>4 DEF CheckVersion, Reads, Progress
  <2>2. CASE AtThrows("jsonrpc") /\ Stop("json_exception")
    BY <1>1, <2>2, HeaderDeserves, StopKeeps
  <2>3. CASE ~AtThrows("jsonrpc") /\ Value("jsonrpc") # Str("2.0") /\ Stop("version_mismatch_error")
    BY <1>1, <2>1, <2>3, HeaderDeserves, StopKeeps
  <2>4. CASE ~AtThrows("jsonrpc") /\ Value("jsonrpc") = Str("2.0") /\ GoOn(Tail(todo)) /\ UNCHANGED packet
    <3>1. todo' = <<"method">> /\ UNCHANGED <<doc, outcome, reply, packet>>
      BY <2>1, <2>4 DEF GoOn
    <3>2. HeaderRead'
      BY <2>1, <2>4, <3>1, DocumentStays DEF HeaderRead
    <3>3. Progress'
      BY <2>1, <3>1, <3>2 DEF Progress
    <3> QED BY <1>1, <3>1, <3>3, GoOnKeeps
  <2> QED BY <1>4, <2>2, <2>3, <2>4 DEF CheckVersion
<1> QED
  BY <1>3, <1>4

\* All keys of the method are left when the packet is begun.
LEMMA MethodStep ==
    ASSUME CodecInv, CheckMethod
    PROVE  CodecInv'
<1>1. doc \in Document /\ outcome = "running" /\ Progress /\ todo # <<>> /\ Head(todo) = "method"
  BY DEF CodecInv, CheckMethod, Reads
<1>2. Filling /\ todo # <<>> => Head(todo) \in {"id", "timing", "sync", "function", "data", "address", "length"}
  BY Chain, OwnKeysFacts DEF Filling, Advances, Fields, FirstOwn, SecondOwn
<1>3. todo = <<"method">> /\ packet = <<>> /\ HeaderRead
  BY <1>1, <1>2 DEF Progress
<1> DEFINE v == doc.top["method"]
           m == Converted("method")
<1>4. v \in JsonValue /\ m = ToEnum(MethodTable, v)
  <2>1. "method" \in TopKeys /\ "method" \in EnumKeys
    BY DEF TopKeys, EnumKeys
  <2>2. Value("method") \in JsonValue /\ Value("method") = v
    BY <1>1, <2>1, ValueTypes
  <2>3. Table("method") = MethodTable
    BY DEF Table
  <2> QED BY <2>1, <2>2, <2>3 DEF Converted
<1>5. (m = "MemoryRead" <=> v = Str("memory_read")) /\ (m = "MemoryWrite" <=> v = Str("memory_write"))
  BY <1>4, MethodFacts
<1>6. CASE AtThrows("method") /\ Stop("json_exception")
  BY <1>1, <1>3, <1>6, HeaderDeserves, StopKeeps
<1>7. CASE ~AtThrows("method") /\ m \notin {"MemoryRead", "MemoryWrite"} /\ Stop("invalid_method_error")
  <2>1. v \notin {Str("memory_read"), Str("memory_write")}
    BY <1>5, <1>7
  <2> QED BY <1>1, <1>3, <1>7, <2>1, HeaderDeserves, StopKeeps
<1>8. CASE ~AtThrows("method") /\ m \in {"MemoryRead", "MemoryWrite"} /\ Store("method") /\ GoOn(BaseKeys \o OwnKeys(m))
  <2>1. MethodRead /\ UNCHANGED <<doc, outcome, reply>>
    BY <1>3, <1>5, <1>8 DEF MethodRead, GoOn
  <2>2. m = "MemoryWrite" <=> Writing
    BY <1>5 DEF Writing
  <2>3. todo' = <<"id", "timing", "sync", "function", FirstOwn, SecondOwn>>
    BY <1>8, <2>2, WholeChain DEF GoOn, FirstOwn, SecondOwn
  <2>4. todo' \in Suffixes(FirstOwn, SecondOwn) /\ Elements(todo') = AllFields
    BY <2>3 DEF Suffixes, Elements, AllFields, Fields
  <2>5. packet' = [k \in {"method"} |-> m]
    BY <1>3, <1>8 DEF Store
  <2>6. DOMAIN packet' = {"method"} /\ \A k \in DOMAIN packet' : packet'[k] = Converted(k)
    BY <2>5
  <2> HIDE DEF m, v
  <2>7. Filling'
    BY <2>1, <2>4, <2>6, DocumentStays DEF Filling
  <2> QED BY <1>1, <2>1, <2>7, GoOnKeeps DEF Progress
<1> QED
  BY <1>6, <1>7, <1>8 DEF CheckMethod

LEMMA FieldStep ==
    ASSUME CodecInv, NEW key \in {"id"} \cup ParamKeys, ReadField(key)
    PROVE  CodecInv'
<1> DEFINE x == FirstOwn
           y == SecondOwn
           flawed == {k \in AllFields : Flawed(k)}
           bad == Writing /\ Value("data").s = "bad"
<1>1. doc \in Document /\ outcome = "running" /\ Progress /\ todo # <<>> /\ Head(todo) = key
  BY DEF CodecInv, ReadField, Reads
<1>2. key \notin {"parse", "jsonrpc", "method"}
  BY DEF ParamKeys
<1>3. Filling
  BY <1>1, <1>2 DEF Progress
<1>4. Advances(x, y, todo)
  BY <1>1, <1>3, Chain, OwnKeysFacts DEF Filling
<1>5. /\ key \in AllFields /\ key \notin Elements(Tail(todo)) /\ Elements(todo) = {key} \cup Elements(Tail(todo))
      /\ Tail(todo) \in Suffixes(x, y)
      /\ (key = x => Elements(todo) = {x, y}) /\ (key = y => Elements(todo) = {y})
  BY <1>1, <1>4 DEF Advances, AllFields
<1>6. AllFields = {"id", "timing", "sync", "function", x, y} /\ x # y
  BY OwnKeysFacts DEF AllFields, Fields
<1>7. ByStructure = IF flawed = {} THEN IF bad THEN "dataflow_exception" ELSE "packet"
                 ELSE IF flawed = {"address"} /\ bad THEN "dataflow_exception" ELSE "json_exception"
  BY <1>1, <1>3, FieldsDeserve DEF Filling
<1>8. \A k \in AllFields \ Elements(todo) : Good(k)
  BY <1>3 DEF Filling
<1>9. CASE Flawed(key) /\ Stop("json_exception")
  <2>1. key \in flawed
    BY <1>5, <1>9
  <2>2. ~(flawed = {"address"} /\ bad)
    <3> SUFFICES ASSUME flawed = {"address"}, bad PROVE FALSE
      OBVIOUS
    <3>1. key = y /\ x = "data" /\ y = "address"
      BY <2>1, OwnKeysFacts
    <3>2. "data" \in AllFields \ Elements(todo)
      BY <1>5, <1>6, <3>1
    <3> QED BY <1>8, <3>2 DEF Good
  <2>3. ByStructure = "json_exception"
    BY <1>7, <2>1, <2>2
  <2> QED BY <1>1, <1>9, <2>3, StopKeeps
<1>10. CASE ~Flawed(key) /\ key = "data" /\ Value(key).s = "bad" /\ Stop("dataflow_exception")
  <2>1. Writing /\ x = "data" /\ y = "address"
    BY <1>5, <1>6, <1>10, OwnKeysFacts
  <2>2. \A k \in flawed : k = "address"
    <3> SUFFICES ASSUME NEW k \in AllFields, Flawed(k), k # "address" PROVE FALSE
      OBVIOUS
    <3>1. k # "data"
      BY <1>10
    <3>2. k \in AllFields \ Elements(todo)
      BY <1>5, <1>10, <2>1, <3>1
    <3> QED BY <1>8, <3>2 DEF Good
  <2>3. flawed = {} \/ flawed = {"address"}
    BY <2>2
  <2>4. ByStructure = "dataflow_exception"
    BY <1>7, <1>10, <2>1, <2>3
  <2> QED BY <1>1, <1>10, <2>4, StopKeeps
<1>11. CASE Good(key) /\ Store(key) /\ GoOn(Tail(todo))
  <2>1. UNCHANGED <<doc, outcome, reply>> /\ todo' = Tail(todo)
    BY <1>11 DEF GoOn
  <2>2. \A k \in AllFields \ Elements(todo') : Good(k)
    BY <1>5, <1>8, <1>11, <2>1
  <2>3. DOMAIN packet' = DOMAIN packet \cup {key}
    BY <1>11 DEF Store
  <2>4. DOMAIN packet = {"method"} \cup (AllFields \ Elements(todo)) /\ \A k \in DOMAIN packet : packet[k] = Converted(k)
    BY <1>3 DEF Filling
  <2>5. DOMAIN packet' = {"method"} \cup (AllFields \ Elements(todo'))
    BY <1>5, <2>1, <2>3, <2>4
  <2>6. \A k \in DOMAIN packet' : packet'[k] = Converted(k)
    BY <1>11, <2>3, <2>4 DEF Store
  <2>7. todo' \in Suffixes(x, y) /\ MethodRead
    BY <1>3, <1>5, <2>1 DEF Filling
  <2>8. Filling'
    BY <2>1, <2>2, <2>5, <2>6, <2>7, DocumentStays DEF Filling
  <2> QED BY <1>1, <2>1, <2>8, GoOnKeeps DEF Progress
<1> QED
  BY <1>9, <1>10, <1>11 DEF ReadField, Good, Flawed

\* Return: every key is read.
LEMMA ReturnStep ==
    ASSUME CodecInv, Return
    PROVE  CodecInv'
<1>1. doc \in Document /\ outcome = "running" /\ Progress /\ todo = <<>> /\ Stop("packet")
  BY DEF CodecInv, Return
<1>2. Filling /\ Elements(todo) = {}
  BY <1>1 DEF Progress, Elements
<1>3. \A k \in AllFields : Good(k)
  BY <1>2 DEF Filling
<1>4. {k \in AllFields : Flawed(k)} = {}
  BY <1>3 DEF Good
<1>5. ~(Writing /\ Value("data").s = "bad")
  <2>1. Writing => "data" \in AllFields
    BY OwnKeysFacts DEF AllFields, Fields
  <2> QED BY <1>3, <2>1 DEF Good
<1>6. ByStructure = "packet"
  BY <1>1, <1>2, <1>4, <1>5, FieldsDeserve DEF Filling
<1> QED
  BY <1>1, <1>2, <1>6, StopKeeps

LEMMA CodecStep ==
    ASSUME CodecInv, [Next]_vars
    PROVE  CodecInv'
<1>1. CASE SerializeResponse
  <2>1. UNCHANGED <<doc, todo, packet, outcome>> /\ outcome = "packet" /\ reply' = ResponseDocument
    BY <1>1 DEF SerializeResponse
  <2>2. reply'.id = Num(packet["id"])
    BY <2>1 DEF ResponseDocument
  <2>3. ByStructure' = ByStructure /\ (Filling' <=> Filling)
    BY <2>1, DocumentStays DEF Filling
  <2> QED BY <2>1, <2>2, <2>3 DEF CodecInv, Decided
<1>2. CASE UNCHANGED vars
  <2>1. UNCHANGED <<doc, todo, packet, outcome, reply>>
    BY <1>2 DEF vars
  <2>2. ByStructure' = ByStructure /\ (Filling' <=> Filling) /\ (Progress' <=> Progress)
    BY <2>1, DocumentStays DEF Filling, Progress
  <2> QED BY <2>1, <2>2 DEF CodecInv, Decided, NoReply
<1> QED
  BY <1>1, <1>2, HeaderStep, MethodStep, FieldStep, ReturnStep DEF Next

LEMMA CodecInvariant == Spec => []CodecInv
BY CodecInit, CodecStep, PTL DEF Spec

\* DeserializeRequest accepts exactly the documents that are complete and throws the exception
\* that the others deserve, whatever a client sends: none is rejected for the wrong reason,
\* and the only flaw that gets past the checks is the name of a timing, sync or function that
\* the protocol does not know.
THEOREM ClassifiedCorrect == Spec => []Classified
<1>1. CodecInv => Classified
  BY DEF CodecInv, Decided, Classified, Deserved
<1> QED
  BY <1>1, CodecInvariant, PTL

-----------------------------------------------------------------------------
(* What the packet and the reply hold. *)

LEMMA NumberFacts ==
    ASSUME doc \in Document, NEW k \in {"id", "address", "length"}
    PROVE  /\ Converted(k) \in 0 .. Modulus(k) - 1
           /\ Value(k).n \in 0 .. Modulus(k) - 1 => Converted(k) = Value(k).n
<1>1. k \notin EnumKeys /\ k # "data" /\ k \in TopKeys \cup ParamKeys
  BY DEF EnumKeys, TopKeys, ParamKeys
<1>2. PICK n \in Int : n = Value(k).n
  BY <1>1, ValueTypes, ValueFacts
<1>3. PICK m \in Nat \ {0} : m = Modulus(k)
  BY JsonAssumption DEF Modulus
<1>4. Converted(k) = n % m
  BY <1>1, <1>2, <1>3 DEF Converted, Number
<1>5. n % m \in 0 .. m - 1
  OBVIOUS
<1>6. n \in 0 .. m - 1 => n % m = n
  OBVIOUS
<1> QED
  BY <1>2, <1>3, <1>4, <1>5, <1>6

\* An accepted packet is what the client meant: from_json fills all fields of the method and
\* no other, and each with the value of the document wherever the protocol has a meaning for it.
THEOREM FaithfulCorrect == Spec => []Faithful
<1>1. CodecInv => Faithful
  <2> SUFFICES ASSUME CodecInv, outcome = "packet"
               PROVE  /\ DOMAIN packet = {"method"} \cup Required(doc.top["method"].s)
                      /\ \A k \in DOMAIN packet \cap EnumKeys :
                            Known(k, Value(k)) => <<packet[k], Value(k).s>> \in {Table(k)[i] : i \in DOMAIN Table(k)}
                      /\ \A k \in DOMAIN packet \cap {"id", "address", "length"} :
                            /\ packet[k] \in 0 .. Modulus(k) - 1
                            /\ Value(k).n \in 0 .. Modulus(k) - 1 => packet[k] = Value(k).n
    BY DEF Faithful
  <2>1. doc \in Document /\ Filling /\ Elements(todo) = {}
    BY DEF CodecInv, Elements
  <2>2. DOMAIN packet = {"method"} \cup AllFields /\ \A k \in DOMAIN packet : packet[k] = Converted(k)
    BY <2>1 DEF Filling
  <2>3. DOMAIN packet = {"method"} \cup Required(doc.top["method"].s)
    BY <2>1, <2>2, RequiredFields DEF Filling
  <2>4. ASSUME NEW k \in DOMAIN packet \cap EnumKeys, Known(k, Value(k))
        PROVE  <<packet[k], Value(k).s>> \in {Table(k)[i] : i \in DOMAIN Table(k)}
    <3>1. packet[k] = ToEnum(Table(k), Value(k))
      BY <2>2 DEF Converted
    <3>2. Value(k) \in JsonValue
      BY <2>1, ValueTypes DEF EnumKeys, TopKeys, ParamKeys
    <3>3. IsTable(Table(k))
      BY Tables
    <3> DEFINE t == Table(k)
               v == Value(k)
    <3>4. IsTable(t) /\ v \in JsonValue /\ v.type = "string" /\ v.s \in Names(t)
      BY <2>4, <3>2, <3>3 DEF Known
    <3> HIDE DEF t, v
    <3>5. <<ToEnum(t, v), v.s>> \in {t[i] : i \in DOMAIN t}
      BY <3>4, EnumFound
    <3> QED BY <3>1, <3>5 DEF t, v
  <2>5. ASSUME NEW k \in DOMAIN packet \cap {"id", "address", "length"}
        PROVE  /\ packet[k] \in 0 .. Modulus(k) - 1
               /\ Value(k).n \in 0 .. Modulus(k) - 1 => packet[k] = Value(k).n
    BY <2>1, <2>2, NumberFacts
  <2> QED BY <2>3, <2>4, <2>5
<1> QED
  BY <1>1, CodecInvariant, PTL

\* SerializeResponse gives the client back the id it sent, so that it can tell which of its
\* requests was answered.
THEOREM IdEchoedCorrect == Spec => []IdEchoed
<1>1. CodecInv => IdEchoed
  <2> SUFFICES ASSUME CodecInv, reply # NoReply,
                      doc.top["id"].type = "number", doc.top["id"].n \in 0 .. IdModulus - 1
               PROVE  reply.id = doc.top["id"]
    BY DEF IdEchoed
  <2>1. doc \in Document /\ Filling /\ Elements(todo) = {} /\ reply.id = Num(packet["id"])
    BY DEF CodecInv, Elements
  <2>2. packet["id"] = Converted("id")
    BY <2>1 DEF Filling, AllFields, Fields
  <2>3. Value("id") = doc.top["id"] /\ Value("id") \in JsonValue
    BY <2>1, ValueTypes DEF TopKeys
  <2>4. Converted("id") = doc.top["id"].n
    BY <2>1, <2>3, NumberFacts DEF Modulus
  <2>5. doc.top["id"] = Num(doc.top["id"].n)
    BY <2>3, ValueFacts
  <2> QED BY <2>1, <2>2, <2>4, <2>5
<1> QED
  BY <1>1, CodecInvariant, PTL

=============================================================================
