------------------------------- MODULE Layout -------------------------------
(***************************************************************************)
(* Sizes in the module file and in the memory of a module, in bytes, for a *)
(* 64-bit machine.  Integers of the file are uint32_t.                     *)
(***************************************************************************)
EXTENDS Integers

CONSTANT UintMax  \* how many values a uint32_t has
ASSUME LayoutAssumption == UintMax \in Nat /\ UintMax > 4096

U32(n)      == n % UintMax
Align(n, a) == ((n + a - 1) \div a) * a

PtrBytes    == 8    \* a pointer, a size_t, a cell of a stack
HeaderBytes == 48   \* struct TaghaModuleHeader
EntryBytes  == 16   \* struct TaghaItemEntry
NodeBytes   == 24   \* struct HarbolMemNode, in front of every allocated block
ItemBytes   == 24   \* struct TaghaItem
SymBytes    == 296  \* struct TaghaSymTable
=============================================================================
