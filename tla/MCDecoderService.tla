-------------------------- MODULE MCDecoderService --------------------------
(* Instances of DecoderService for TLC: who uses which client.             *)
EXTENDS DecoderService, TLC

CONSTANTS client1, client2, thread1, thread2

Shared == (thread1 :> client1) @@ (thread2 :> client1)   \* one client for both
Apart  == (thread1 :> client1) @@ (thread2 :> client2)   \* a client each

(* The threads of Shared are interchangeable.                              *)
Symmetry == Permutations({thread1, thread2})
=============================================================================
