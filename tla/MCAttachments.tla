---------------------------- MODULE MCAttachments ---------------------------
(***************************************************************************)
(* Instances of Attachments for TLC: an attachment that grows when it is   *)
(* replaced, of whose name nothing is left, and two whose names, "a b" and *)
(* ".a_b", become the same file name.                                      *)
(***************************************************************************)
EXTENDS Attachments, TLC

CONSTANTS grows, spaced, scored

Names == (grows :> <<".", "control">>) @@ (spaced :> <<"a", " ", "b">>)
         @@ (scored :> <<".", "a", "_", "b">>)
Lengths == (grows :> <<1, 2>>) @@ (spaced :> <<1>>) @@ (scored :> <<1>>)

Config(m, d, l) == [mode |-> m, download |-> d, limit |-> l]

AllConfigs == {Config("full", TRUE, 0), Config("updates", TRUE, 0),
               Config("updates", TRUE, 1), Config("updates", FALSE, 0)}
=============================================================================
