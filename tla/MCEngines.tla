----------------------------- MODULE MCEngines -----------------------------
(***************************************************************************)
(* The choice among the engines, and the audit of the native one.  The two *)
(* are checked in one run and have nothing else in common: `part' says     *)
(* which of them a behaviour is of, and the other stays as it begins.      *)
(*                                                                         *)
(* An endpoint with two calls and a command find two different sets of     *)
(* engines; two interchangeable threads use the audit.                     *)
(***************************************************************************)
EXTENDS EngineRegistry, NativeAudit

CONSTANTS serve, use1, s1, s2, c1, t1, t2

VARIABLE part

MCInit == part \in {"choice", "audit"} /\ RegistryInit /\ AuditInit

\* The native audit may come to its end; the registry may not.
MCNext == \/ part = "choice" /\ RegistryNext /\ UNCHANGED <<part, nativeAuditVars>>
          \/ part = "audit" /\ AuditNext /\ UNCHANGED <<part, registryVars>>
          \/ part = "audit" /\ UNCHANGED <<part, registryVars, nativeAuditVars>>

MCSpec == MCInit /\ [][MCNext]_<<part, registryVars, nativeAuditVars>>

Symmetry == Permutations({t1, t2})

MCProcess == (s1 :> serve) @@ (s2 :> serve) @@ (c1 :> use1)

\* Without a model for llama.cpp it is not known at all.
MCHosts ==
    {[known |-> {"ollama", "pal-native"}, installed |-> {}],
     [known |-> Engines, installed |-> {"llamacpp", "ollama"}]}
=============================================================================
