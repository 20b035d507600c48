------------------------------- MODULE HValue -------------------------------
(***************************************************************************)
(* The values of the VM (vm/src/object/value.c) and int64_t arithmetic.    *)
(* A string or native value is an object, told by its number in the order  *)
(* of allocation: equality looks at nothing else.  A float is a number     *)
(* with an integral value.                                                 *)
(***************************************************************************)
EXTENDS Integers

CONSTANTS IntMin, IntMax   \* the range of int64_t

Value == [tag : {"nil", "bool", "int", "float", "string", "native"}, as : Int]

Nil == [tag |-> "nil", as |-> 0]
Bool(b) == [tag |-> "bool", as |-> IF b THEN 1 ELSE 0]
IntValue(n) == [tag |-> "int", as |-> n]

Truthy(v) == v.tag # "nil" /\ (v.tag = "bool" => v.as = 1)
Numeric(v) == v.tag \in {"int", "float"}
Concatenable(v) == v.tag \in {"string", "int", "float"}

(* The build wraps signed overflow, as two's complement arithmetic does. *)
Wrap(n) == IntMin + ((n - IntMin) % (IntMax - IntMin + 1))

(* C division truncates toward zero. *)
Abs(n) == IF n < 0 THEN -n ELSE n
Quotient(a, b) == IF (a < 0) = (b < 0) THEN Abs(a) \div Abs(b) ELSE -(Abs(a) \div Abs(b))
=============================================================================
