----------------------------- MODULE MCFindings -----------------------------
(***************************************************************************)
(* What the assembly pass tells of its input files when it ends, with the  *)
(* programs that show it.                                                  *)
(***************************************************************************)
EXTENDS Assembler, SampleLines

\* A run that ends with success has read every file it was given.
SuccessMeansRead ==
    status = "succeeded" => \A n \in DOMAIN Inputs : Inputs[n] \in DOMAIN program

MissingPrograms == {("f" :> <<Src(Global(<<"a">>), "", <<>>)>>)}
=============================================================================
