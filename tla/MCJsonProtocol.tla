--------------------------- MODULE MCJsonProtocol ---------------------------
(* Instances of JsonProtocol for TLC. *)
EXTENDS JsonProtocol

\* For each key: missing, of the wrong type, unknown, out of range, and right.
TopValues == [jsonrpc |-> {Absent, Str("2.0"), Str("2.1")},
              id |-> {Absent, Str("1"), Bool(1), Num(-1), Num(2), Num(5)},
              method |-> {Absent, Str("memory_read"), Str("memory_write"), Str("gpu_read"), Num(1)}]
ParamValues == [timing |-> {Absent, Str("frame_end"), Str("soon")},
                sync |-> {Str("nonblocking"), Str("unknown")},
                function |-> {Absent, Str("callback")},
                address |-> {Absent, Str("9"), Num(9), Num(-1), Num(7)},
                length |-> {Absent, Bool(1), Num(3)},
                data |-> {Absent, Num(0), Str("good"), Str("bad")}]

Tops == {t \in [TopKeys -> UNION {TopValues[k] : k \in TopKeys}] : \A k \in TopKeys : t[k] \in TopValues[k]}
Params == [timing : ParamValues["timing"], sync : ParamValues["sync"],
           function : ParamValues["function"], address : ParamValues["address"],
           length : ParamValues["length"], data : ParamValues["data"]]
NoParams == [k \in ParamKeys |-> Absent]

SomeDocuments ==
    [parses : {TRUE}, object : {TRUE}, top : Tops, paramsObject : {TRUE}, params : Params]
        \cup [parses : {TRUE}, object : {TRUE}, top : Tops, paramsObject : {FALSE}, params : {NoParams}]
        \cup [parses : BOOLEAN, object : {FALSE}, top : {[k \in TopKeys |-> Absent]},
              paramsObject : {FALSE}, params : {NoParams}]
=============================================================================
