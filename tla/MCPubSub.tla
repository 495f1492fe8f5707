------------------------------- MODULE MCPubSub -------------------------------
(* PubSub for TLC.  Descriptor numbers, accounts and topics are            *)
(* interchangeable.                                                        *)
EXTENDS PubSub

Names == Permutations(FD) \cup Permutations(Account) \cup Permutations(Topic)
=============================================================================
