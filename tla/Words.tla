-------------------------------- MODULE Words --------------------------------
(* Integers of a fixed width, which C++ converts from one kind to the other. *)
EXTENDS Integers

CONSTANT Word     \* 2^32: how many values an integer has

Wrapped(n) == n % Word

Signed(n) == IF Wrapped(n) >= Word \div 2 THEN Wrapped(n) - Word ELSE Wrapped(n)

=============================================================================
