------------------------------ MODULE Startup -------------------------------
(***************************************************************************)
(* What a process of the operator does before its controllers run (main.rs,*)
(* run and cleanup_orphan_eips; eip.rs, register_custom_resource), with    *)
(* the Eip controller at work afterwards and users all the time: Eips of   *)
(* version 1 are replaced by Eips of version 2, then the addresses of no   *)
(* Eip are released, then the finalizers of an older operator are taken    *)
(* off its pods, whose addresses carried no uid.                           *)
(***************************************************************************)
EXTENDS EipAddresses

CONSTANTS
  OldEip,     \* OldEip[e]: the uid and the address that an Eip of version 1 of
              \* the name e had; its domain is a set of Eips
  Upgradable, \* the Eips of the namespace in which the upgrade looks
  LegacyPod,  \* the pods an older operator managed
  Mortal,     \* the Eips that may be deleted
  Crashing,   \* whether the process may end at any time and be started again
  Resending   \* whether AllocateAddress may be sent again by the SDK

ASSUME StartupAssumption ==
  /\ DOMAIN OldEip \subseteq Eip
  /\ \A e \in DOMAIN OldEip :
       OldEip[e] \in [uid : Uid, alloc : AllocId, port : Port, assoc : AssocId]
  /\ \A e, f \in DOMAIN OldEip : OldEip[e].uid = OldEip[f].uid => e = f

VARIABLES
  stage,      \* the call of startup that comes next, "run", or "ended"
  old,        \* the Eips stored in version 1
  todo,       \* Eips of version 1 that were listed and are to be replaced
  found,      \* the addresses described, each with its association id
  legacyAddr, \* the pods whose address of the older operator is still there
  legacyPods  \* the pods that have the finalizer of the older operator

startVars == <<stage, old, todo, found, legacyAddr, legacyPods>>
vars == <<eipVars, resVars, awsVars, eipCtlVars, startVars>>

TypeOK ==
  /\ ClusterTypeOK
  /\ EipControllerTypeOK
  /\ stage \in {"upgrade", "replace", "describe", "list", "release", "unfinalize",
                "run", "ended"}
  /\ old \subseteq Eip
  /\ todo \subseteq Eip
  /\ found \subseteq AllocId \X (AssocId \cup {None})
  /\ legacyAddr \subseteq LegacyPod
  /\ legacyPods \subseteq LegacyPod

\* The Eips of version 1 in there, those in dying being deleted, those in paid with
\* an address, and those in on with the address on a port.
Left(there, dying, paid, on) ==
  LET of(a, es) == {e \in es : OldEip[e].alloc = a}
      by(a, es) == OldEip[CHOOSE e \in of(a, es) : TRUE]
  IN /\ eip = [e \in Eip |->
                 IF e \in there
                   THEN [phase |-> IF e \in dying THEN "deleting" ELSE "live",
                         uid |-> OldEip[e].uid, finalizer |-> TRUE]
                   ELSE NoEip]
     /\ status = [e \in Eip |->
                    IF e \in paid THEN StatusCreated(NoStatus, OldEip[e].alloc)
                                  ELSE NoStatus]
     /\ seen = [e \in Eip |-> {"cache"}]
     /\ usedUid = {OldEip[e].uid : e \in there}
     /\ res = [r \in Resource |-> NoResource]
     /\ resSynced = Resource
     /\ owner = [a \in AllocId |-> IF of(a, paid) = {} THEN None ELSE by(a, paid).uid]
     /\ allocated = {OldEip[e].alloc : e \in paid}
     /\ attached = [a \in AllocId |->
                      IF of(a, on) = {} THEN NoAttachment
                      ELSE [port |-> by(a, on).port, assoc |-> by(a, on).assoc]]
     /\ EipControllerInit
     /\ stage = "upgrade"
     /\ old = there
     /\ todo = {}
     /\ found = {}
     /\ legacyAddr \in SUBSET LegacyPod
     /\ legacyPods = LegacyPod

Init ==
  \E there \in SUBSET DOMAIN OldEip :
  \E dying \in SUBSET there, paid \in SUBSET there :
  \E on \in SUBSET paid : Left(there, dying, paid, on)

-----------------------------------------------------------------------------
(* The calls of startup, in their order.                                   *)

\* Another process begins; no controller runs until it is through.
Begin ==
  /\ stage' = "upgrade"
  /\ worker' = [e \in Eip |-> IdleWorker]
  /\ eipQueue' = {}
  /\ todo' = {}
  /\ found' = {}
  /\ UNCHANGED <<eipVars, resVars, awsVars, cachedEip, cachedStatus,
                 old, legacyAddr, legacyPods>>

Continue(next) ==
  /\ stage' = next
  /\ UNCHANGED eipCtlVars

StartAgain == stage = "ended" /\ Begin

\* A call of startup fails, which ends the process.
Fail == Continue("ended") /\ UNCHANGED <<todo, found>>

\* upgrade_old_resources lists version 1; e holds the copy of Eip e meanwhile.
ListOld ==
  /\ stage = "upgrade"
  /\ todo' = old \cap Upgradable
  /\ seen' = [e \in Eip |-> IF e \in todo' THEN {e} ELSE {}]
  /\ Continue(IF todo' = {} THEN "describe" ELSE "replace")
  /\ UNCHANGED <<eip, status, usedUid, resVars, awsVars, old, found, legacyAddr, legacyPods>>

\* Mutant: the new object carries no resourceVersion, which the API server wants.
ReplaceOldUnversioned(e) ==
  /\ stage = "replace"
  /\ e \in todo
  /\ Fail
  /\ UNCHANGED <<eipVars, resVars, awsVars, old, legacyAddr, legacyPods>>

\* The new object carries the resourceVersion of the listed one and no finalizer;
\* the status is a subresource and stays.  An Eip that is being deleted goes with
\* its last finalizer.  A conflict ends the process.
ReplaceOld(e) ==
  LET goes == eip[e].phase = "deleting"
  IN /\ stage = "replace"
     /\ e \in todo
     /\ IF e \in seen[e]
          THEN /\ eip' = [eip EXCEPT ![e] = IF goes THEN NoEip
                                            ELSE [@ EXCEPT !.finalizer = FALSE]]
               /\ status' = [status EXCEPT ![e] = IF goes THEN NoStatus ELSE @]
               /\ seen' = [seen EXCEPT ![e] = {}]
               /\ old' = old \ {e}
               /\ todo' = todo \ {e}
               /\ Continue(IF todo' = {} THEN "describe" ELSE "replace")
               /\ UNCHANGED found
          ELSE Fail /\ UNCHANGED <<eip, status, seen, old>>
     /\ UNCHANGED <<usedUid, resVars, awsVars, legacyAddr, legacyPods>>

\* Mutant: only the addresses that are not in use are looked at.
DescribeUnassociated ==
  /\ stage = "describe"
  /\ found' = {<<a, attached[a].assoc>> : a \in {b \in allocated : attached[b].port = None}}
  /\ Continue("list")
  /\ UNCHANGED <<eipVars, resVars, awsVars, old, todo, legacyAddr, legacyPods>>

\* All addresses tagged with the cluster, and those of the older operator.
DescribeAddresses ==
  /\ stage = "describe"
  /\ found' = {<<a, attached[a].assoc>> : a \in allocated}
  /\ Continue("list")
  /\ UNCHANGED <<eipVars, resVars, awsVars, old, todo, legacyAddr, legacyPods>>

\* Mutant: only the Eips that are guarded.
EipUidsGuarded == {eip[e].uid : e \in {f \in Eip : Exists(f) /\ eip[f].finalizer}}
EipUids == {eip[e].uid : e \in {f \in Eip : Exists(f)}}

\* The addresses to be released are those of the found whose uid no Eip has.  An
\* Eip of version 1 cannot be read as one of version 2, which fails the list.
ListEips ==
  /\ stage = "list"
  /\ IF old = {}
       THEN /\ found' = {t \in found : owner[t[1]] \notin EipUids}
            /\ Continue("release")
            /\ UNCHANGED todo
       ELSE Fail
  /\ UNCHANGED <<eipVars, resVars, awsVars, old, legacyAddr, legacyPods>>

\* disassociate_and_release_address for one of them, in two calls.
\* Mutant: what is left is the address alone.
DisassociateOrphanBare ==
  /\ stage = "release"
  /\ \E t \in found :
       /\ t[2] # None
       /\ disassociate_eip(t[2])
       /\ found' = (found \ {t}) \cup {<<t[1]>>}
  /\ UNCHANGED <<eipVars, resVars, eipCtlVars, stage, old, todo, legacyAddr, legacyPods>>

DisassociateOrphan ==
  /\ stage = "release"
  /\ \E t \in found :
       /\ t[2] # None
       /\ disassociate_eip(t[2])
       /\ found' = (found \ {t}) \cup {<<t[1], None>>}
  /\ UNCHANGED <<eipVars, resVars, eipCtlVars, stage, old, todo, legacyAddr, legacyPods>>

ReleaseOrphan ==
  /\ stage = "release"
  /\ \E t \in found :
       /\ t[2] = None
       /\ IF Releasable(t[1])
            THEN /\ release_address(t[1])
                 /\ found' = found \ {t}
                 /\ UNCHANGED <<eipCtlVars, stage, todo>>
            ELSE Fail /\ UNCHANGED awsVars
  /\ UNCHANGED <<eipVars, resVars, old, legacyAddr, legacyPods>>

ReleaseLegacy ==
  /\ stage = "release"
  /\ \E p \in legacyAddr : legacyAddr' = legacyAddr \ {p}
  /\ UNCHANGED <<eipVars, resVars, awsVars, eipCtlVars, stage, old, todo, found, legacyPods>>

\* Mutant: the finalizers are taken off first.
OrphansReleasedAnyway ==
  /\ stage = "release"
  /\ Continue("unfinalize")
  /\ UNCHANGED <<eipVars, resVars, awsVars, old, todo, found, legacyAddr, legacyPods>>

OrphansReleased ==
  /\ stage = "release"
  /\ found = {}
  /\ legacyAddr = {}
  /\ Continue("unfinalize")
  /\ UNCHANGED <<eipVars, resVars, awsVars, old, todo, found, legacyAddr, legacyPods>>

\* A JSON patch for each pod that has the finalizer.
RemoveLegacyFinalizer ==
  /\ stage = "unfinalize"
  /\ \E p \in legacyPods : legacyPods' = legacyPods \ {p}
  /\ UNCHANGED <<eipVars, resVars, awsVars, eipCtlVars, stage, old, todo, found, legacyAddr>>

\* The controllers start with a list of the Eips.
Spawn ==
  /\ stage = "unfinalize"
  /\ legacyPods = {}
  /\ stage' = "run"
  /\ EipControllerRestart
  /\ seen' = [e \in Eip |-> {"cache"}]
  /\ UNCHANGED <<eip, status, usedUid, resVars, awsVars, old, todo, found, legacyAddr, legacyPods>>

Starting ==
  \/ ListOld
  \/ \E e \in Eip : ReplaceOld(e)
  \/ DescribeAddresses
  \/ ListEips
  \/ DisassociateOrphan
  \/ ReleaseOrphan
  \/ ReleaseLegacy
  \/ OrphansReleased
  \/ RemoveLegacyFinalizer
  \/ Spawn
  \/ StartAgain

-----------------------------------------------------------------------------
(* The rest of the life of a process, and the users.                       *)

Running(e) == stage = "run" /\ EipStep(e) /\ UNCHANGED startVars

\* AllocateAddress carries no client token: when its answer is lost the SDK sends
\* it again, whether or not it was done.  The last identifier is kept for the
\* answer that is not lost, which bounds how often.
ResendAllocate(e) ==
  LET a == CHOOSE b \in UnusedAllocIds : TRUE
  IN /\ Resending
     /\ stage = "run"
     /\ worker[e].pc = "allocate"
     /\ \E b, c \in UnusedAllocIds : b # c
     /\ allocate_address(a, worker[e].uid)
     /\ UNCHANGED <<eipVars, resVars, eipCtlVars, startVars>>

Restart == Crashing /\ stage # "ended" /\ Begin

UserCreates(e) == CreateEip(e) /\ UNCHANGED <<eipCtlVars, startVars>>

UserDeletes(e) ==
  /\ e \in Mortal
  /\ DeleteEip(e)
  /\ old' = IF eip[e].finalizer THEN old ELSE old \ {e}
  /\ UNCHANGED <<eipCtlVars, stage, todo, found, legacyAddr, legacyPods>>

Next ==
  \/ Starting
  \/ \E e \in Eip : Running(e) \/ ResendAllocate(e) \/ UserCreates(e) \/ UserDeletes(e)
  \/ Restart

Spec == Init /\ [][Next]_vars

\* Startup goes on, and the controller as in NodeOperator.
FairSpec ==
  /\ Spec
  /\ WF_vars(Starting)
  /\ \A e \in Eip :
       /\ WF_vars(stage = "run" /\ EipWatch(e) /\ UNCHANGED startVars)
       /\ WF_vars(stage = "run" /\ EipStart(e) /\ UNCHANGED startVars)
       /\ WF_vars(stage = "run" /\ EipProgress(e) /\ UNCHANGED startVars)

-----------------------------------------------------------------------------
(* Why only upgraded Eips leave addresses behind: an inductive invariant.  *)

\* What is stored in version 1 is an Eip of the older operator, and nothing is
\* once the Eips were listed.
OldInv ==
  /\ old \subseteq DOMAIN OldEip
  /\ \A e \in old : eip[e].uid = OldEip[e].uid
  /\ stage \in {"release", "unfinalize", "run"} => old = {}
  /\ stage = "replace" => \A e \in todo : e \in seen[e] => e \in old

\* No controller runs beside startup, and the cache is filled when it ends.
RunInv == IF stage = "run" THEN CacheInv ELSE \A e \in Eip : worker[e] = IdleWorker

\* A cleanup leaves no address of its object to nobody.
CleanupInv ==
  \A e \in Eip :
    LET mine == describe_addresses_with_tag_value(worker[e].uid)
    IN /\ worker[e].pc = "finalize" => mine = {}
       /\ worker[e].pc = "release" => mine \subseteq {t[1] : t \in worker[e].todo}

WasOld(a) == \E e \in DOMAIN OldEip : owner[a] = OldEip[e].uid

\* The address of an Eip that is not old is guarded.
GuardInv ==
  \A a \in allocated :
    WasOld(a) \/ \E e \in Eip : eip[e].uid = owner[a] /\ eip[e].finalizer

OrphanInv ==
  /\ UidsInv
  /\ PhasesInv
  /\ WorkerInv
  /\ OldInv
  /\ RunInv
  /\ CleanupInv
  /\ GuardInv

-----------------------------------------------------------------------------
(* Properties.                                                             *)

Orphan(a) == a \in allocated /\ ~\E e \in Eip : eip[e].uid = owner[a]

\* Startup releases no address whose Eip is there, though Eips are created and
\* deleted between the calls that describe, list and release, and though the
\* upgrade has just dropped their finalizers (main.rs, cleanup_orphan_eips).
ReleasesOnlyOrphans ==
  [][\A a \in allocated \ allocated' : stage # "run" => Orphan(a)]_vars

\* Only an Eip that was upgraded can leave an address behind: it is not guarded
\* until its controller has put the finalizer back (eip.rs, upgrade_old_resources).
OrphansWereOld ==
  \A a \in allocated : Orphan(a) => WasOld(a)

\* The finalizer of the older operator stays on its pods until their addresses are
\* released (main.rs, "since we just removed the EIPs").
LegacyReleasedFirst == legacyAddr \subseteq legacyPods

\* An address that was left behind is released by a later start, if there are
\* starts that go through (main.rs, cleanup_orphan_eips).
OrphansHealed ==
  []<>(stage = "upgrade") /\ []<>(stage = "run")
  => \A a \in AllocId : []<>~Orphan(a)

\* Once it is not killed any more the operator gets its controllers running exactly
\* if no Eip of version 1 stays where the upgrade does not look: with one, the list
\* of all Eips fails in every start; without, no conflict with a user does (main.rs,
\* run and cleanup_orphan_eips; eip.rs, upgrade_old_resources).
EventuallyRuns ==
  <>[][~Restart]_vars => <>[](stage = "run" <=> old \ Upgradable = {})

\* A live Eip has the address it is there for in its status at last, also when
\* the SDK sends a request twice (controller/eip.rs, apply).
EventuallyAllocated ==
  <>[][~Restart]_vars =>
    \A e \in Eip : <>[](eip[e].phase = "live") => <>(status[e].alloc # None)
=============================================================================
