----------------------------- MODULE RdkShellData -----------------------------
(***************************************************************************)
(* Values of the class RdkShellData: a union of numbers, a pointer to a    *)
(* string and a pointer, and the type that says which it is.  The union is *)
(* one word of which a narrow type writes the lowest part and leaves the   *)
(* rest as it is.  A float stands for an integer, its bits for themselves: *)
(* they are read as it only.  A string is one of Texts in a block of the   *)
(* heap.                                                                   *)
(* The class relies on its callers: a string is assigned to a value that   *)
(* is new or a string, anything else to a value that is no string, and     *)
(* values that hold a string are assigned but not copied when constructed. *)
(* The callers in the repository keep to this by clearing a map before     *)
(* they fill it again and passing maps by reference.                       *)
(***************************************************************************)
EXTENDS Integers

CONSTANTS
    Cells,                 \* where there may be a value
    Texts,
    Narrow, Middle, Wide,  \* 2^8, 2^32, 2^64: how many values the parts of the union have
    Addresses              \* of blocks of the heap, as a word

RdkShellDataAssumption ==
    /\ \A size \in {Narrow, Middle, Wide} : size \in Nat \ {0} /\ size % 2 = 0
    /\ Addresses \subseteq 1..(Wide - 1)

VARIABLES
    alive,           \* the values there are
    mDataTypeIndex,
    mData,           \* the word
    heap,            \* the strings, by address
    assigned         \* what a value was last assigned

vars == <<alive, mDataTypeIndex, mData, heap, assigned>>

Words == 0..(Wide - 1)

-----------------------------------------------------------------------------

Signed   == {"int8", "int32", "int64", "float", "double"}
Unsigned == {"uint8", "uint32", "uint64"}
Numeric  == Signed \cup Unsigned

\* How many values the part of the union has that a type uses
Size(type) ==
    CASE type \in {"bool", "int8", "uint8"}              -> Narrow
      [] type \in {"int32", "uint32", "float"}           -> Middle
      [] type \in {"int64", "uint64", "double", "void*"} -> Wide

RangeOf(type) ==
    LET half == Size(type) \div 2
    IN  IF type = "bool"          THEN 0..1
        ELSE IF type \in Signed THEN (-half)..(half - 1)
        ELSE                         0..(Size(type) - 1)

\* A conversion keeps the low bits.
Cast(type, n) ==
    LET low == n % Size(type)
    IN  IF type \in Signed /\ low >= Size(type) \div 2 THEN low - Size(type) ELSE low

Stored(word, type, n) == (word - (word % Size(type))) + (n % Size(type))

-----------------------------------------------------------------------------
(* Reading: every conversion reads the member that was written.            *)

Converted(type, v) ==
    IF mDataTypeIndex[v] \in Numeric THEN Cast(type, Cast(mDataTypeIndex[v], mData[v])) ELSE 0

toBoolean(v) == mDataTypeIndex[v] = "bool" /\ Cast("bool", mData[v]) = 1

toInteger8(v)           == Converted("int8", v)
toInteger64(v)          == Converted("int64", v)
toUnsignedInteger8(v)   == Converted("uint8", v)
toUnsignedInteger64(v)  == Converted("uint64", v)
toFloat(v)              == Converted("float", v)

NoText == 0

toString(v) == IF mDataTypeIndex[v] = "string" THEN heap[mData[v]] ELSE NoText

-----------------------------------------------------------------------------

Init ==
    /\ alive = {}
    /\ mDataTypeIndex = [v \in Cells |-> "void*"]
    /\ mData = [v \in Cells |-> 0]
    /\ heap = <<>>
    /\ assigned = [v \in Cells |-> 0]

Is(v, type, word, n) ==
    /\ mDataTypeIndex' = [mDataTypeIndex EXCEPT ![v] = type]
    /\ mData' = [mData EXCEPT ![v] = word]
    /\ assigned' = [assigned EXCEPT ![v] = n]

\* RdkShellData()
Default(v) ==
    /\ v \notin alive
    /\ alive' = alive \cup {v}
    /\ Is(v, "void*", 0, 0)
    /\ UNCHANGED heap

\* RdkShellData(data) for a number: what the union held before is undefined.
Construct(v, type, n) ==
    /\ v \notin alive
    /\ alive' = alive \cup {v}
    /\ \E garbage \in Words : Is(v, type, Stored(garbage, type, n), n)
    /\ UNCHANGED heap

\* setData() for a number or a truth value
Assign(v, type, n) ==
    /\ v \in alive
    /\ mDataTypeIndex[v] # "string"
    /\ Is(v, type, Stored(mData[v], type, n), n)
    /\ UNCHANGED <<alive, heap>>

\* setData() for a pointer keeps the place of its own argument.
AssignPointer(v) ==
    /\ v \in alive
    /\ mDataTypeIndex[v] # "string"
    /\ \E place \in Words \ {0} : Is(v, "void*", place, place)
    /\ UNCHANGED <<alive, heap>>

TakesString(v) == mDataTypeIndex[v] = "string" \/ (mDataTypeIndex[v] = "void*" /\ mData[v] = 0)

Written(address, text) ==
    [a \in DOMAIN heap \cup {address} |-> IF a = address THEN text ELSE heap[a]]

\* Every assignment takes a block of its own.
BugSetString(v, text) ==
    \E address \in Addresses \ DOMAIN heap :
        /\ Is(v, "string", address, text)
        /\ heap' = Written(address, text)

SetString(v, text) ==
    \E address \in IF mData[v] = 0 THEN Addresses \ DOMAIN heap ELSE {mData[v]} :
        /\ Is(v, "string", address, text)
        /\ heap' = Written(address, text)

AssignString(v, text) ==
    /\ v \in alive
    /\ TakesString(v)
    /\ SetString(v, text)
    /\ UNCHANGED alive

\* operator=(const RdkShellData&)
Copy(v, from) ==
    /\ {v, from} \subseteq alive
    /\ IF mDataTypeIndex[from] = "string"
       THEN TakesString(v) /\ SetString(v, toString(from))
       ELSE /\ mDataTypeIndex[v] # "string"
            /\ Is(v, mDataTypeIndex[from],
                  Stored(mData[v], mDataTypeIndex[from], mData[from]), assigned[from])
            /\ UNCHANGED heap
    /\ UNCHANGED alive

\* ~RdkShellData()
Destroy(v) ==
    /\ v \in alive
    /\ alive' = alive \ {v}
    /\ heap' = IF mDataTypeIndex[v] = "string"
               THEN [address \in DOMAIN heap \ {mData[v]} |-> heap[address]]
               ELSE heap
    /\ Is(v, "void*", 0, 0)

Next ==
    \E v \in Cells :
        \/ Default(v)
        \/ \E type \in Numeric \cup {"bool"} :
              \E n \in RangeOf(type) : Construct(v, type, n) \/ Assign(v, type, n)
        \/ AssignPointer(v)
        \/ \E text \in Texts : AssignString(v, text)
        \/ \E from \in Cells : Copy(v, from)
        \/ Destroy(v)

Spec == Init /\ [][Next]_vars

-----------------------------------------------------------------------------

\* A value reads as what it was last assigned, by itself or from another, in
\* every type that has room for it, whatever wider or narrower values the same
\* bytes have held before.
ReadsAsAssigned ==
    \A v \in alive :
        /\ mDataTypeIndex[v] \in Numeric =>
              \A type \in Numeric :
                 assigned[v] \in RangeOf(type) => Converted(type, v) = assigned[v]
        /\ mDataTypeIndex[v] = "bool"   => toBoolean(v) = (assigned[v] = 1)
        /\ mDataTypeIndex[v] = "string" => toString(v) = assigned[v]

\* A string is some value's and no other's, as long as that value lives: none
\* is freed twice, written to after it was freed, or left behind.
StringsAreOwned ==
    LET owners == {v \in alive : mDataTypeIndex[v] = "string"}
    IN  /\ DOMAIN heap = {mData[v] : v \in owners}
        /\ \A v, w \in owners : mData[v] = mData[w] => v = w

\* Values read as they were assigned, and strings have one owner while it lives.
ValuesAreKept == ReadsAsAssigned /\ StringsAreOwned

=============================================================================
