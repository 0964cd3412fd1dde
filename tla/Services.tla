------------------------------ MODULE Services ------------------------------
(***************************************************************************)
(* The background services, the sessions, the administration, the live     *)
(* updates and the shell of a tab side by side.  They share no state, so   *)
(* that interleaving them would add states and no behaviour: one of them   *)
(* runs, in the focus, from any of its initial states, while the others    *)
(* rest in one of theirs.                                                  *)
(***************************************************************************)
EXTENDS Outbox, Digest, Sessions, Roles, Catalogue, Live, Shell

VARIABLE focus

servicesVars == <<outboxVars, digestVars, sessionVars, rolesVars, catalogueVars, liveVars,
                  shellVars, focus>>

\* An outbox at rest has sent everything; nobody at rest is due a digest.
ServicesInit ==
  /\ focus \in {"outbox", "digest", "sessions", "roles", "catalogue", "live", "shell"}
  /\ OutboxInit /\ DigestInit /\ SessionsInit /\ RolesInit /\ CatalogueInit /\ LiveInit
  /\ ShellInit
  /\ focus # "outbox" => /\ \A i \in Intent : rows[i].status = "sent"
                         /\ current = {} /\ known = {}
  /\ focus # "digest" => eligible = {} /\ pressing = {}
  /\ focus # "shell" => jar = "none" /\ ~portal

ServicesNext ==
  /\ UNCHANGED focus
  /\ \/ /\ focus = "outbox" /\ OutboxNext
        /\ UNCHANGED <<digestVars, sessionVars, rolesVars, catalogueVars, liveVars, shellVars>>
     \/ /\ focus = "digest" /\ DigestNext
        /\ UNCHANGED <<outboxVars, sessionVars, rolesVars, catalogueVars, liveVars, shellVars>>
     \/ /\ focus = "sessions" /\ SessionsNext
        /\ UNCHANGED <<outboxVars, digestVars, rolesVars, catalogueVars, liveVars, shellVars>>
     \/ /\ focus = "roles" /\ RolesNext
        /\ UNCHANGED <<outboxVars, digestVars, sessionVars, catalogueVars, liveVars, shellVars>>
     \/ /\ focus = "catalogue" /\ CatalogueNext
        /\ UNCHANGED <<outboxVars, digestVars, sessionVars, rolesVars, liveVars, shellVars>>
     \/ /\ focus = "live" /\ LiveNext
        /\ UNCHANGED <<outboxVars, digestVars, sessionVars, rolesVars, catalogueVars,
                       shellVars>>
     \/ /\ focus = "shell" /\ ShellNext
        /\ UNCHANGED <<outboxVars, digestVars, sessionVars, rolesVars, catalogueVars, liveVars>>

\* Nobody has the live view of a resting service open.
ServicesSpec == /\ ServicesInit /\ [][ServicesNext]_servicesVars
                /\ OutboxFairness /\ DigestFairness /\ SessionsFairness
                /\ AnswerFairness /\ ShellFairness
                /\ \A l \in ViewLoad : WF_liveVars(focus = "live" /\ Poll(l))

\* Each service keeps to its types.
ServicesTypeOK == OutboxTypeOK /\ DigestTypeOK /\ SessionsTypeOK /\ ShellTypeOK
=============================================================================
