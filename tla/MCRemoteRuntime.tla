--------------------------- MODULE MCRemoteRuntime ---------------------------
(***************************************************************************)
(* Small instances of RemoteRuntime.  MCContextOf gives every call its own *)
(* context, as UUIDs do; MCSharedContext makes all calls carry one and the *)
(* same CommandMessage.                                                    *)
(***************************************************************************)
EXTENDS RemoteRuntime, TLC

MCContextOf == [c \in Calls |-> c]

MCSharedContext == [c \in Calls |-> CHOOSE x \in Contexts : TRUE]
CallSymmetry == Permutations(Calls)
=============================================================================
