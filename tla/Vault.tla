------------------------------- MODULE Vault --------------------------------
(***************************************************************************)
(* The secret vault with lazy expiry, the two credential strategies that   *)
(* read it, and the hash-chained audit log they all write to. Every lock   *)
(* section is a step: a Get reads under the read lock, tests the expiry    *)
(* without a lock and evicts under the write lock; audit events follow the *)
(* operation. The hash is injective: an event's hash is the sequence of    *)
(* everything hashed so far.                                               *)
(***************************************************************************)
EXTENDS Integers, Sequences, FiniteSets

CONSTANTS VaCallers, VaKeys, VaValues,
          VaAllowed,       \* keys of the providers on the hybrid allow list
          VaBadKeys,       \* keys validateVaultKey refuses
          VaMaxCalls, VaMaxTime

ASSUME VaAssumption == IsFiniteSet(VaKeys)

VARIABLES vaEntries,       \* key -> [value, expires] or VaNone; expires 0: never
          vaTruth,         \* history: the same without eviction
          vaNow, vaCall, vaLog, vaTail, vaCalls

vaVars == <<vaEntries, vaTruth, vaNow, vaCall, vaLog, vaTail, vaCalls>>

VaNone == [value |-> "", expires |-> 0]
VaIdle == [pc |-> "idle", op |-> "", key |-> "", ent |-> VaNone, act |-> "", n |-> 0,
           pin |-> <<>>]

VaInit == /\ vaEntries = [k \in VaKeys |-> VaNone]
          /\ vaTruth = vaEntries
          /\ vaNow = 1
          /\ vaCall = [c \in VaCallers |-> VaIdle]
          /\ vaLog = <<>> /\ vaTail = <<>>
          /\ vaCalls = 0

VaExpired(ent) == ent.expires # 0 /\ vaNow >= ent.expires
VaReads == {"get", "hybrid", "direct"}

\* HybridLLMAccess.Credentials: a provider off the list is denied, the others
\* go to the vault, which refuses a bad key.
VaHybrid(k) == CASE k \notin VaAllowed -> [pc |-> "emit", act |-> "denied"]
                 [] k \in VaAllowed \cap VaBadKeys -> [pc |-> "emit", act |-> "rejected"]
                 [] OTHER -> [pc |-> "lock", act |-> "hybrid"]

\* A call starts. A bad key goes straight to its event; a provider that is
\* not allowed is denied; Put computes the expiry before it locks; Tail is
\* read by a writer that pins its event to it.
VaBegin(c) ==
    /\ vaCall[c].pc = "idle"
    /\ vaCalls < VaMaxCalls
    /\ vaCalls' = vaCalls + 1
    /\ \E op \in VaReads \cup {"put", "delete", "rotate", "list", "pinned"},
          k \in VaKeys \cup VaBadKeys, v \in VaValues, ttl \in {0, 1} :
         /\ op \in {"direct", "list", "pinned"} => k \notin VaBadKeys
         /\ vaCall' = [vaCall EXCEPT ![c] =
               [pc |-> CASE op = "hybrid" -> VaHybrid(k).pc
                         [] op # "hybrid" /\ (k \in VaBadKeys \/ op = "pinned") -> "emit"
                         [] OTHER -> "lock",
                op |-> op, key |-> k,
                ent |-> [value |-> v, expires |-> IF ttl = 0 THEN 0 ELSE vaNow + ttl],
                act |-> CASE op = "hybrid" -> VaHybrid(k).act
                          [] op # "hybrid" /\ k \in VaBadKeys -> "rejected"
                          [] OTHER -> op,
                n |-> 0,
                pin |-> IF op = "pinned" THEN vaTail ELSE <<>>]]
    /\ UNCHANGED <<vaEntries, vaTruth, vaNow, vaLog, vaTail>>

VaLocked(c, ops) == vaCall[c].pc = "lock" /\ vaCall[c].op \in ops

VaRead(c) ==
    /\ VaLocked(c, VaReads)
    /\ vaCall' = [vaCall EXCEPT ![c].pc = "test", ![c].ent = vaEntries[vaCall[c].key]]
    /\ UNCHANGED <<vaEntries, vaTruth, vaNow, vaLog, vaTail, vaCalls>>

\* The expiry is tested after the lock is released.
VaTest(c) ==
    /\ vaCall[c].pc = "test"
    /\ LET ent == vaCall[c].ent IN
         vaCall' = [vaCall EXCEPT ![c].pc = IF VaExpired(ent) THEN "evict" ELSE "emit",
                                  ![c].act = IF ent = VaNone THEN "not_found" ELSE "success"]
    /\ UNCHANGED <<vaEntries, vaTruth, vaNow, vaLog, vaTail, vaCalls>>

\* Mutant: the entry is not compared again under the write lock.
VaAlwaysOld(k, ent) == TRUE
VaStillOld(k, ent) == vaEntries[k] = ent

VaEvict(c) ==
    /\ vaCall[c].pc = "evict"
    /\ LET k == vaCall[c].key IN
         vaEntries' = IF VaStillOld(k, vaCall[c].ent)
                      THEN [vaEntries EXCEPT ![k] = VaNone] ELSE vaEntries
    /\ vaCall' = [vaCall EXCEPT ![c].pc = "emit", ![c].act = "not_found"]
    /\ UNCHANGED <<vaTruth, vaNow, vaLog, vaTail, vaCalls>>

VaStore(c, k, ent, truth, act) ==
    /\ vaEntries' = [vaEntries EXCEPT ![k] = ent]
    /\ vaTruth' = [vaTruth EXCEPT ![k] = truth]
    /\ vaCall' = [vaCall EXCEPT ![c].pc = "emit", ![c].act = act]
    /\ UNCHANGED <<vaNow, vaLog, vaTail, vaCalls>>

VaPut(c) == /\ VaLocked(c, {"put"})
            /\ VaStore(c, vaCall[c].key, vaCall[c].ent, vaCall[c].ent, "put")

VaDelete(c) == /\ VaLocked(c, {"delete"})
               /\ VaStore(c, vaCall[c].key, VaNone, VaNone, "delete")

\* Rotate keeps the expiry; a missing or expired entry is refused, the
\* expired one dropped on the way.
VaRotate(c) ==
    /\ VaLocked(c, {"rotate"})
    /\ LET k == vaCall[c].key
           cur == vaEntries[k]
           new == [cur EXCEPT !.value = vaCall[c].ent.value]
       IN  IF cur = VaNone \/ VaExpired(cur)
           THEN VaStore(c, k, VaNone, vaTruth[k], "not_found")
           ELSE VaStore(c, k, new, new, "rotate")

\* List names the unexpired keys; their number is in its event.
VaListed == {k \in VaKeys : vaEntries[k] # VaNone /\ ~VaExpired(vaEntries[k])}
VaList(c) ==
    /\ VaLocked(c, {"list"})
    /\ vaCall' = [vaCall EXCEPT ![c].pc = "emit", ![c].key = "",
                                ![c].n = Cardinality(VaListed)]
    /\ UNCHANGED <<vaEntries, vaTruth, vaNow, vaLog, vaTail, vaCalls>>

\* canonicalHash: every field but the hash itself.
VaHash(ev) == Append(ev.prev, <<ev.act, ev.key, ev.n>>)

\* Emit: a blank PrevHash takes the tail, a pinned one must equal it.
VaAppend(act, key, n, pin) ==
    IF pin # <<>> /\ pin # vaTail THEN UNCHANGED <<vaLog, vaTail>>
    ELSE LET ev == [act |-> act, key |-> key, n |-> n, prev |-> vaTail]
         IN  /\ vaLog' = Append(vaLog, [ev |-> ev, self |-> VaHash(ev)])
             /\ vaTail' = VaHash(ev)

\* A strategy that got the secret reports the issue in a second event.
VaIssue(call) == IF call.op \in {"hybrid", "direct"} /\ call.act = "success"
                 THEN [call EXCEPT !.act = "issued"] ELSE VaIdle

\* The event of the operation.
VaEmit(c) ==
    /\ vaCall[c].pc = "emit"
    /\ VaAppend(vaCall[c].act, vaCall[c].key, vaCall[c].n, vaCall[c].pin)
    /\ vaCall' = [vaCall EXCEPT ![c] = VaIssue(@)]
    /\ UNCHANGED <<vaEntries, vaTruth, vaNow, vaCalls>>

VaTick == /\ vaNow < VaMaxTime
          /\ vaNow' = vaNow + 1
          /\ UNCHANGED <<vaEntries, vaTruth, vaCall, vaLog, vaTail, vaCalls>>

VaNext == \/ \E c \in VaCallers : \/ VaBegin(c) \/ VaRead(c) \/ VaTest(c) \/ VaEvict(c)
                                  \/ VaPut(c) \/ VaDelete(c) \/ VaRotate(c) \/ VaList(c) \/ VaEmit(c)
          \/ VaTick

VaSpec == VaInit /\ [][VaNext]_vaVars

----------------------------------------------------------------------------
\* Verify: every row continues the row before it and its hash is its own.
VaVerify == \A i \in DOMAIN vaLog :
                /\ vaLog[i].ev.prev = IF i = 1 THEN <<>> ELSE vaLog[i - 1].self
                /\ vaLog[i].self = VaHash(vaLog[i].ev)

\* However evictions, writes and rotations interleave, a key that was written
\* and has not expired is in the vault with the value last written, and an
\* entry is missing only if it was deleted or has expired. The audit chain
\* always verifies, also beside writers that pin a stale tail, and every
\* issued credential is in the log after a successful read of its key.
VaLedgerTruthful ==
    /\ \A k \in VaKeys : \/ vaEntries[k] = vaTruth[k]
                         \/ vaEntries[k] = VaNone /\ VaExpired(vaTruth[k])
    /\ VaVerify
    /\ vaTail = IF vaLog = <<>> THEN <<>> ELSE vaLog[Len(vaLog)].self
    /\ \A i \in DOMAIN vaLog : vaLog[i].ev.act = "issued" =>
           \E j \in 1 .. i - 1 : vaLog[j].ev.act = "success" /\ vaLog[j].ev.key = vaLog[i].ev.key
=============================================================================
