------------------------------ MODULE MCMsgXML ------------------------------
(***************************************************************************)
(* Instances of MsgXML for TLC.                                            *)
(***************************************************************************)
EXTENDS MsgXML, TLC

CONSTANTS PhoneIP, MACAddress, a, b     \* model values

TwoFields == {PhoneIP, MACAddress}
Sizes == PhoneIP :> 3 @@ MACAddress :> 2
TwoSymbols == {a, b}
\* One that fits each field, one that fits PhoneIP alone, and one too long for buf.
SomeRuns == {<<a>>, <<b, a>>, <<b, a, b, a>>}
SomeGarbage == {<<b>>}
=============================================================================
