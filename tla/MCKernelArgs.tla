---------------------------- MODULE MCKernelArgs ----------------------------
EXTENDS KernelArgs

CONSTANTS kern, grid, ptr1, ptr2, moved1, num, junk, zero

Kernel(name, args) == [name |-> name, args |-> args]

(* Arguments whose numbers have one and two digits, and padding before the *)
(* address among them.                                                     *)
Many == [i \in 1 .. 9 |-> "number"] \o <<"pointer", "number">>

(* A kernel of thirteen arguments with padding between them and one        *)
(* without, in one code object; the first again, without the runtime's     *)
(* arguments; one whose name is a key of the first, and whose key is one   *)
(* too (kern and 10, kern1 and 0); one of the second's name and other      *)
(* arguments; one without arguments.                                       *)
MCObjects ==
    { <<Kernel(<<kern>>, Many \o <<"hidden", "hidden">>),
        Kernel(<<grid>>, <<"pointer", "number">>)>>,
      <<Kernel(<<kern>>, Many)>>,
      <<Kernel(<<kern, 1>>, <<"pointer">>), Kernel(<<grid, grid>>, << >>)>>,
      <<Kernel(<<grid>>, <<"pointer", "number", "pointer">>)>> }
MCMoved == [a \in {ptr1} |-> moved1]
=============================================================================
