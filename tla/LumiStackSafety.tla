--------------------------- MODULE LumiStackSafety --------------------------
(***************************************************************************)
(* The optimizer's stack analysis and the virtual machine together:        *)
(* programs whose three sections were accepted, with the maximum that the  *)
(* analysis recorded, run on any storage that lumi_vm_init_state takes,    *)
(* beside programs that were not.  What the analysis leaves in stack_at is *)
(* a certificate (Certifies of LumiCertificate), here a parameter.         *)
(***************************************************************************)
EXTENDS LumiVM, LumiCertificate

CONSTANTS
  Accepted,           \* the programs that the analysis accepted
  DepthAt(_, _, _)    \* DepthAt(p, mode, pc): stack_at of the mode's section of p

Depths(p, mode) == [pc \in 0..Len(Section(p, mode))-1 |-> DepthAt(p, mode, pc)]

\* Accepted means certified.
ASSUME AcceptedAssumption ==
  \A p \in Accepted, mode \in Mode :
    /\ \A pc \in 0..Len(Section(p, mode))-1 : DepthAt(p, mode, pc) \in Int
    /\ Certifies(Depths(p, mode), Section(p, mode), p.maxStack)

\* Every instruction of accepted code runs at the depth that the analysis found for its offset, on
\* whatever path and with whatever inputs it is reached.
DepthPredicted ==
  program \in Accepted /\ status = "running" /\ frame.pc < Len(Code) =>
    /\ DepthAt(program, frame.mode, frame.pc) # Unknown
    /\ Depth = DepthAt(program, frame.mode, frame.pc)

\* The faults that analysed code never raises: the interpreter always finds an
\* instruction, whole, with a jump target inside the section, and never lacks room on
\* the stack.  Too few operands is not among them: instruction_stack_delta gives only
\* the net effect, so an ADD that finds one cell is accepted.
FaultsExcluded == {"unknown opcode", "truncated operand", "stack overflow", "jump target out of range"}
NoStructuralFault ==
  program \in Accepted /\ Executing =>
    /\ Fault \notin FaultsExcluded
    /\ Op = JUMP => Operand < Len(Code)
=============================================================================
