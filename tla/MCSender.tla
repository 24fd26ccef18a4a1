------------------------------ MODULE MCSender ------------------------------
(***************************************************************************)
(* An instance of Sender: three fields, read in another order than they    *)
(* arrive in, as groundSpeed is read before height.                        *)
(***************************************************************************)
EXTENDS Sender

Fields == <<1, 3, 2>>
=============================================================================
