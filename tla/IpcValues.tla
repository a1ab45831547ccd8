------------------------------ MODULE IpcValues ------------------------------
(* The conversation with the values of the calls it carries (Parameters) and *)
(* the unions a process keeps them in (RdkShellData).                        *)
EXTENDS Ipc, Words

CONSTANTS Numbers, Unit, sixDigits, Doubles, Sites, Screen    \* of Parameters

VARIABLES step, method, given, before, display, request, data

values == <<step, method, given, before, display, request, data>>

Values == INSTANCE Parameters WITH Scales <- Doubles, Bounds <- Sites

CONSTANTS Cells, Strings, Narrow, Middle, Wide, Addresses    \* of RdkShellData

VARIABLES alive, mDataTypeIndex, mData, heap, assigned

unions == <<alive, mDataTypeIndex, mData, heap, assigned>>

Data == INSTANCE RdkShellData WITH Texts <- Strings

\* What is set in a call is what is read, see Parameters.
SetIsRead == Values!SetIsRead

\* What a value was assigned is what it reads as, see RdkShellData.
ValuesAreKept == Data!ValuesAreKept

=============================================================================
