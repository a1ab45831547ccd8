------------------------------- MODULE MCIpc -------------------------------
(* Ipc with a process that makes two calls beside one that makes one; or the *)
(* values of one call on their way through it; or the values of events; or   *)
(* what callers set and get of a display.  A behaviour is about one of them. *)
EXTENDS IpcValues, Calls

CONSTANTS u, v

CallsOf == [x \in Users |-> IF x = u THEN 2 ELSE 1]

\* Doubles in thousandths: 1.5, and 123456.4, whose six digits are a whole number.
MCDoubles == {1500, 123456400}

\* On the screen, with 1.0 and 1234.567 for scales, and left of it, too wide, with a
\* million, which is written with an exponent.
MCSites == {[x |-> 1, y |-> 0, w |-> 4, h |-> 2, sx |-> 1000, sy |-> 1234567],
            [x |-> -2, y |-> 3, w |-> 6, h |-> 0, sx |-> 1000000000, sy |-> 1000]}

\* All doubles there are, and what is left of them in six digits.
MCSixDigits ==
    LET rounded(d) ==
          LET units == {n \in {1, 10, 100, 1000, 10000} : d \div n < 1000000}
              last == CHOOSE n \in units : \A m \in units : n <= m
          IN  last * ((d + last \div 2) \div last)
        all == MCDoubles \cup UNION {{b.sx, b.sy} : b \in MCSites}
    IN  [d \in all \cup {rounded(e) : e \in all} |-> rounded(d)]

MCNumbers == {-1, 3}

ASSUME ValuesAssumption == Values!ParametersAssumption /\ Data!RdkShellDataAssumption

\* on the screen, left of it and above it, with and without a size
MCBounds == {[x |-> 2, y |-> 0, w |-> 8, h |-> 6], [x |-> -1, y |-> 3, w |-> 4, h |-> 0],
             [x |-> 5, y |-> -2, w |-> 0, h |-> 12]}

\* of both axes, and of one
MCScales == {<<0, 3>>, <<2, -1>>, <<-1, 3>>}

ASSUME PropertiesAssumption == CallsAssumption

VARIABLE part   \* one of the four, for good

MCInit ==
    /\ Init
    /\ Values!Init
    /\ Data!Init
    /\ CallsInit
    /\ part \in {"conversation", "values", "data", "properties"}
    /\ part # "properties" => mode = "state"
    /\ part # "values" => given = Values!NoData /\ method = "setScale" /\ before.x = 1

MCNext ==
    \/ part = "conversation" /\ Next /\ UNCHANGED <<values, unions, callsVars, part>>
    \/ part = "values" /\ Values!Next /\ UNCHANGED <<vars, unions, callsVars, part>>
    \/ part = "data" /\ Data!Next /\ UNCHANGED <<vars, values, callsVars, part>>
    \/ part = "properties" /\ CallsNext /\ UNCHANGED <<vars, values, unions, part>>

MCSpec ==
    /\ MCInit /\ [][MCNext]_<<vars, values, unions, callsVars, part>>
    /\ WF_vars(Process) /\ \A x \in Users : WF_vars(SendPayload(x))

=============================================================================
