------------------------------ MODULE Parameters ------------------------------
(***************************************************************************)
(* What becomes of the values of one call on its way through the IPC: from *)
(* the RdkShellData of a process (rdkshelldata.cpp) to the JSON text of a  *)
(* request (clientmessagehandler.cpp), the handler that reads it           *)
(* (servermessagehandler.cpp), the display it changes, the event about     *)
(* that and the answer to a query, back to RdkShellData.                   *)
(* An integer stands for itself, a double for its value in units of which  *)
(* there are Unit in 1.0, so that there are fractions.  A text has all the *)
(* digits of an integer, and six of a double, as a stringstream writes it. *)
(* Of an animation only the last frame is here.  Operators named Bug...    *)
(* are deliberate mistakes used to test that the property can fail.        *)
(***************************************************************************)
EXTENDS Words, FiniteSets

CONSTANTS
    Numbers,       \* integers a caller passes, as int32_t
    Unit,          \* 1.0
    sixDigits,     \* what the text says of every double there is, in six digits
    Scales,        \* doubles a caller passes
    Bounds,        \* where the display may be, [x, y, w, h, sx, sy]
    Screen         \* width and height of the screen

ParametersAssumption ==
    /\ Word \in Nat \ {0}
    /\ Numbers \subseteq Int /\ \A n \in Numbers : Signed(n) = n
    /\ Unit \in Nat \ {0} /\ Screen \in Nat
    /\ DOMAIN sixDigits \subseteq Nat
    /\ sixDigits \in [DOMAIN sixDigits -> DOMAIN sixDigits]
    /\ \A d \in DOMAIN sixDigits : sixDigits[sixDigits[d]] = sixDigits[d]
    /\ Scales \subseteq DOMAIN sixDigits
    /\ Bounds \subseteq [x : Int, y : Int, w : Nat, h : Nat,
                       sx : DOMAIN sixDigits, sy : DOMAIN sixDigits]
    /\ \A b \in Bounds : /\ Signed(b.x) = b.x /\ Signed(b.y) = b.y
                         /\ Wrapped(b.w) = b.w /\ Wrapped(b.h) = b.h

VARIABLES
    step,      \* how far the call has come
    method, given,   \* the call: its method and its parameters
    before,    \* the display as it was
    display,   \* the display
    request,   \* the request's "params", by index
    data       \* what the process has received last, by name

vars == <<step, method, given, before, display, request, data>>

-----------------------------------------------------------------------------
(* RdkShellData and JSON numbers.                                          *)

Data(type, n) == [type |-> type, n |-> n]

toInteger32(d) == IF d.type = "double" THEN d.n \div Unit ELSE Signed(d.n)

BugToUnsignedInteger32(d) == IF d.type = "double" THEN d.n \div Unit ELSE d.n

toUnsignedInteger32(d) == IF d.type = "double" THEN d.n \div Unit ELSE Wrapped(d.n)

toDouble(d) == IF d.type = "double" THEN d.n ELSE Unit * d.n

\* What the parser makes of the text of a number.
IntegerText(n) == Data(IF n < 0 THEN "int" ELSE "uint", n)

\* A text in six digits is that of an integer if there is no fraction in them and no
\* exponent, which there is from a million on.
Million == 1000000

Whole(d) == d % Unit = 0 /\ d < Million * Unit

DoubleText(d) ==
    LET written == sixDigits[d]
    IN  IF Whole(written) THEN IntegerText(written \div Unit) ELSE Data("double", written)

\* GetUint() asserts that the number is an unsigned one.
IsUint(json) == json.type = "uint"

GetDouble(json) == toDouble(json)

-----------------------------------------------------------------------------
(* The client.                                                             *)

Parameter(index, mandatory, type) == [index |-> index, mandatory |-> mandatory, type |-> type]

\* The entry "h" of addAnimation is missing: "w" is entered twice, and the
\* second entry, which has the index of the height, replaces the first.
sParameterInfo ==
    [setBounds    |-> [client |-> Parameter(0, TRUE, "s"),
                       x |-> Parameter(1, FALSE, "u"), y |-> Parameter(2, FALSE, "u"),
                       w |-> Parameter(3, FALSE, "u"), h |-> Parameter(4, FALSE, "u")],
     setScale     |-> [client |-> Parameter(0, TRUE, "s"),
                       sx |-> Parameter(1, FALSE, "f"), sy |-> Parameter(2, FALSE, "f")],
     addAnimation |-> [client |-> Parameter(0, TRUE, "s"), duration |-> Parameter(1, TRUE, "u"),
                       x |-> Parameter(2, FALSE, "u"), y |-> Parameter(3, FALSE, "u"),
                       w |-> Parameter(5, FALSE, "u"),
                       sx |-> Parameter(6, FALSE, "f"), sy |-> Parameter(7, FALSE, "f")]]

Mandatory(m) == {p \in DOMAIN sParameterInfo[m] : sParameterInfo[m][p].mandatory}

populateParameterValue(type, d) ==
    CASE type = "u" -> IntegerText(toUnsignedInteger32(d))
      [] type = "f" -> DoubleText(toDouble(d))
      [] OTHER      -> d

\* Parameters a method does not have are left out.
prepareRequestParameters(m, params) ==
    LET info == sParameterInfo[m]
        used == DOMAIN params \cap DOMAIN info
    IN  [i \in {info[p].index : p \in used} |->
           LET p == CHOOSE q \in used : info[q].index = i
           IN  populateParameterValue(info[p].type, params[p])]

-----------------------------------------------------------------------------
(* The server.                                                             *)

\* The handlers' default for a parameter that is not there.
Uint(params, i, default) == IF i \in DOMAIN params THEN params[i].n ELSE default

Double(params, i, default) == IF i \in DOMAIN params THEN GetDouble(params[i]) ELSE default

setBoundsHandler(params) ==
    [display EXCEPT !.x = Signed(Uint(params, 1, Wrapped(@))),
                    !.y = Signed(Uint(params, 2, Wrapped(@))),
                    !.w = Uint(params, 3, @),
                    !.h = Uint(params, 4, @)]

setScaleHandler(params) ==
    [display EXCEPT !.sx = Double(params, 1, @), !.sy = Double(params, 2, @)]

OnScreen(n) == IF n > Screen THEN Screen ELSE n

\* Where the animation ends, as its last frame sets it.
addAnimationHandler(params) ==
    [display EXCEPT !.x = Signed(Uint(params, 2, @)),
                    !.y = Signed(Uint(params, 3, @)),
                    !.w = OnScreen(Uint(params, 4, @)),
                    !.h = OnScreen(Uint(params, 5, @)),
                    !.sx = IF 6 \in DOMAIN params THEN Unit * params[6].n ELSE @,
                    !.sy = Double(params, 7, @)]

\* The indices a handler reads with GetUint().
ReadAsUint(m) ==
    CASE m = "setBounds"    -> 1..4
      [] m = "addAnimation" -> 2..6
      [] OTHER              -> {}

Understood(m, params) == \A i \in ReadAsUint(m) \cap DOMAIN params : IsUint(params[i])

Handler(m, params) ==
    CASE m = "setBounds"    -> setBoundsHandler(params)
      [] m = "setScale"     -> setScaleHandler(params)
      [] m = "addAnimation" -> addAnimationHandler(params)

-----------------------------------------------------------------------------
(* The steps of a call, the event about it and a query.                    *)

Client == Data("string", 0)

\* A process passes some of a method's parameters, or some it does not have.
Given(names) ==
    UNION {[passed -> {Data("int32", n) : n \in Numbers}] : passed \in SUBSET names}

GivenScales ==
    UNION {[passed -> {Data("double", d) : d \in Scales}] : passed \in SUBSET {"sx", "sy"}}

Merged(f, g) == [p \in DOMAIN f \cup DOMAIN g |-> IF p \in DOMAIN f THEN f[p] ELSE g[p]]

NoData == [p \in {} |-> Client]

Init ==
    /\ step = "calling"
    /\ method \in DOMAIN sParameterInfo
    /\ \E bounds \in Given({"x", "y", "w", "h"}), scales \in GivenScales,
          others \in SUBSET {"client", "duration"} :
          /\ (method = "setBounds" => scales = NoData) /\ (method = "setScale" => bounds = NoData)
          /\ given = Merged(Merged(bounds, scales),
                            [p \in others |-> IF p = "client" THEN Client ELSE Data("int32", 1)])
    /\ before \in Bounds
    /\ display = before
    /\ request = NoData
    /\ data = NoData

\* A call without all mandatory parameters is refused.
Call ==
    /\ step = "calling"
    /\ Mandatory(method) \subseteq DOMAIN given
    /\ request' = prepareRequestParameters(method, given)
    /\ step' = "called"
    /\ UNCHANGED <<method, given, before, display, data>>

Refuse ==
    /\ step = "calling"
    /\ ~(Mandatory(method) \subseteq DOMAIN given)
    /\ step' = "set"
    /\ UNCHANGED <<method, given, before, display, request, data>>

Handle ==
    /\ step = "called"
    /\ \/ /\ Understood(method, request)
          /\ display' = Handler(method, request)
          /\ step' = IF method = "addAnimation" THEN "animated" ELSE "set"
       \/ /\ ~Understood(method, request)
          /\ step' = "server aborted"
          /\ UNCHANGED display
    /\ UNCHANGED <<method, given, before, request, data>>

\* The numbers of an event or an answer; places are signed in the one and
\* unsigned in the other.
Texts(places) ==
    [x |-> IntegerText(places[display.x]), y |-> IntegerText(places[display.y]),
     w |-> IntegerText(display.w), h |-> IntegerText(display.h),
     sx |-> DoubleText(display.sx), sy |-> DoubleText(display.sy)]

Places == {display.x, display.y}

Received(texts, names) ==
    [p \in names |-> IF p \in {"sx", "sy"} THEN Data("double", GetDouble(texts[p]))
                                           ELSE Data("uint32", texts[p].n)]

\* onAnimation, with what the animation changes, and its handler in the client
Event ==
    /\ step = "animated"
    /\ LET changed == {p \in DOMAIN display : display[p] # before[p]}
           texts == Texts([n \in Places |-> n])
       IN  IF \A p \in changed \ {"sx", "sy"} : IsUint(texts[p])
           THEN data' = Received(texts, changed) /\ step' = "set"
           ELSE step' = "client aborted" /\ UNCHANGED data
    /\ UNCHANGED <<method, given, before, display, request>>

\* getBounds and getScale
Query ==
    /\ step = "set"
    /\ data' = Received(Texts([n \in Places |-> Wrapped(n)]), DOMAIN display)
    /\ step' = "answered"
    /\ UNCHANGED <<method, given, before, display, request>>

Next == Call \/ Refuse \/ Handle \/ Event \/ Query

Spec == Init /\ [][Next]_vars

-----------------------------------------------------------------------------
(* The property.                                                           *)

\* What a process means by a parameter and what it reads of one it received.
Meaning(p, d) ==
    CASE p \in {"x", "y"} -> toInteger32(d)
      [] p \in {"w", "h"} -> toUnsignedInteger32(d)
      [] OTHER            -> toDouble(d)

Passed(p) == p \in DOMAIN given /\ Mandatory(method) \subseteq DOMAIN given

Resized ==
    /\ method = "addAnimation"
    /\ Passed("w") \/ Passed("h") \/ before.w > Screen \/ before.h > Screen

\* A scale is only known to the six digits of its text.
Legible(p, value) == IF p \in {"sx", "sy"} THEN sixDigits[value] ELSE value

\* Whatever a process sets in one of the three ways is what it reads with
\* getBounds and getScale afterwards, scales to six digits, and what it leaves out
\* is as before, negative places and fractions included, although the values pass
\* through signed, unsigned and decimal forms.  Not so: the width and height of an
\* animation (sParameterInfo, and the screen bounds them); a scale sx of an
\* animation with a fraction or an exponent, for the server reads an integer; the
\* event of an animation at a negative place, which the client reads as an unsigned
\* one.
SetIsRead ==
    /\ step = "answered" =>
          \A p \in DOMAIN before :
             \/ Resized /\ p \in {"w", "h"}
             \/ Meaning(p, data[p])
                  = Legible(p, IF Passed(p) THEN Meaning(p, given[p]) ELSE before[p])
    /\ step = "server aborted" =>
          method = "addAnimation" /\ Passed("sx") /\ ~Whole(sixDigits[given["sx"].n])
    /\ step = "client aborted" => display.x < 0 \/ display.y < 0

=============================================================================
