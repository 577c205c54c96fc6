-------------------------------- MODULE Buff --------------------------------
(***************************************************************************)
(* The memory of a buffer, BuffAbstract: how much is filled, how much may  *)
(* be filled before the next release(), how much is allocated.             *)
(*                                                                         *)
(* A buffer is a record with at least the fields `top` (_top_offset),      *)
(* `size` (_size) and `reserved` (_reserved).                              *)
(***************************************************************************)
EXTENDS Integers

CONSTANTS
    BasicBlock,  \* _basic_block_size
    FreeBlocks,  \* reserve_bl_count in the calculate_mem of the class
    MaxSize      \* the size above which release() throws

ASSUME BuffAssumption ==
    /\ BasicBlock \in Nat \ {0}
    /\ FreeBlocks \in Nat \ {0}
    /\ MaxSize \in Nat

-----------------------------------------------------------------------------
Avail(b) == b.size - b.top

\* Mutant of CalculateMem: one block less.
CalculateMemMutantOneBlock(top, block) ==
    ((top + top) \div block + FreeBlocks - 1) * block

\* calculate_mem, in which top_offset() and size_filled() are the same.
CalculateMem(top, block) == ((top + top) \div block + FreeBlocks) * block

\* The constructor calls the calculate_mem of the base class.
NewMem == [top |-> 0, size |-> 0, reserved |-> 2 * BasicBlock]

\* release() throws.
Overflows(b) == b.size > MaxSize

\* release(n)
Release(b, n) ==
    IF n < Avail(b) THEN b
    ELSE [b EXCEPT !.size = b.top + n,
                   !.reserved = IF b.reserved - b.top <= n
                                THEN CalculateMem(b.top, n) ELSE @]

\* accept(n), of as many bytes as there is room for.
Accept(b, n) == [b EXCEPT !.top = @ + n]

\* reset()
Reset(b) ==
    [b EXCEPT !.top = 0, !.size = 0, !.reserved = CalculateMem(0, BasicBlock)]

Mem == [top : Nat, size : Nat, reserved : Nat]

\* What was given out is allocated.
Fit(b) == b.top <= b.size /\ b.size <= b.reserved

=============================================================================
