-------------------------- MODULE RequestFacts_proofs -------------------------
(***************************************************************************)
(* What RequestFacts promises, for any number of Requests, Tickets and     *)
(* blockers and without its bounds.  Relations and duplicates are          *)
(* inductive by themselves.  For the list, Lag says that what it does not  *)
(* show yet is waiting to be confirmed; for DONE, Sound says of every      *)
(* evaluation that was ever stored what its digest still means.            *)
(***************************************************************************)
EXTENDS RequestFacts, TLAPS

\* Of a done evaluation, what the digest alone shows: its outcome, and that a
\* required Ticket whose invalidations have not changed has no late one.
Sound(c) ==
  c.outcome = "done" =>
    \/ c.digest.triage = "REJECTED"
    \/ c.digest.triage = "DUPLICATE" /\ c.digest.canonical[2] = "DONE"
    \/ /\ c.digest.triage = "ACCEPTED" /\ c.digest.blockers = {}
       /\ \E d \in c.digest.relations : d.purpose = "required"
       /\ \A d \in c.digest.relations : d.purpose = "required" =>
            /\ d.ticket \in Tickets /\ d.state = "closed" /\ ~d.blocked
            /\ d.invalidations \in Nat /\ d.invalidations <= ticket[d.ticket].invalidations
            /\ d.invalidations = ticket[d.ticket].invalidations =>
                 ~ticket[d.ticket].lateInvalidation

AllSound ==
  /\ \A r \in Requests : Sound(latest[r]["closure"]) /\ Sound(accepted[r]["closure"])
  /\ \A f \in pending : f.slot = "closure" => Sound(f.value)

\* A slot the list shows differently, or may still come to show differently, has
\* its latest fact in pending, behind all others of the slot.
LatestPends(r, s) ==
  \E f \in pending :
    /\ f.request = r /\ f.slot = s /\ f.value = latest[r][s]
    /\ \A g \in pending : g.request = r /\ g.slot = s /\ g # f => g.version < f.version

Lag ==
  \A r \in Requests, s \in Slots :
    accepted[r][s] # latest[r][s] \/ (\E g \in pending : g.request = r /\ g.slot = s) =>
      LatestPends(r, s)

\* What each command may append, and what it does to the holders.
Fits(r, slot, value) ==
  \/ slot \in {"priority", "owner"} \cup BlockerKeys /\ holder' = holder
  \/ slot = "closure" /\ Sound(value) /\ holder' = holder
  \/ /\ slot = "triage" /\ value \in TriageFacts /\ holder' = holder
     /\ ~IsCanonicalTarget(r)
     /\ value.disposition = "DUPLICATE" =>
          value.canonical \in Requests \ {r} /\ Disposition(Current, value.canonical) # "DUPLICATE"
  \/ /\ slot \in Tickets /\ value # "none" /\ holder[slot] \in {NoRequest, r}
     /\ holder' = [holder EXCEPT ![slot] = r]
  \/ /\ slot \in Tickets /\ value = "none" /\ holder[slot] = r
     /\ holder' = [holder EXCEPT ![slot] = NoRequest]

IInv == TypeOK /\ DuplicatesStayFlat /\ OneRequestPerTicket /\ Lag /\ AllSound

-----------------------------------------------------------------------------
\* A command changes one slot of one Request and its version.
LEMMA AppendChangesOneSlot ==
  ASSUME TypeOK, NEW r \in Requests, NEW slot \in Slots, NEW value, Append(r, slot, value)
  PROVE  /\ DOMAIN latest' = Requests
         /\ \A q \in Requests : DOMAIN latest'[q] = Slots
         /\ \A q \in Requests, s \in Slots :
              latest'[q][s] = IF q = r /\ s = slot THEN value ELSE latest[q][s]
BY DEF Append, TypeOK

\* What is accepted changes with a command in the same slot or not at all.
LEMMA AppendAccepts ==
  ASSUME TypeOK, NEW r \in Requests, NEW slot \in Slots, NEW value, Append(r, slot, value)
  PROVE  /\ DOMAIN accepted' = Requests
         /\ \A q \in Requests : DOMAIN accepted'[q] = Slots
         /\ \A q \in Requests, s \in Slots :
              accepted'[q][s] \in {accepted[q][s], IF q = r /\ s = slot THEN value ELSE accepted[q][s]}
         /\ acceptedVersion' \in [Requests -> Nat]
         /\ \A f \in pending' : \/ f \in pending
                                \/ f = [request |-> r, slot |-> slot, value |-> value,
                                        version |-> version[r] + 1]
BY DEF Append, TypeOK, acceptedVars

\* Types are kept by a command that writes a fact of the right type.
LEMMA AppendKeepsTypes ==
  ASSUME TypeOK, NEW r \in Requests, NEW slot \in Slots, NEW value, Append(r, slot, value),
         slot = "triage" => value \in TriageFacts,
         holder' \in [Tickets -> Requests \cup {NoRequest}]
  PROVE  TypeOK'
<1>1. version' \in [Requests -> Nat] /\ version'[r] = version[r] + 1
  BY DEF Append, TypeOK
<1>2. \A q \in Requests : version[q] <= version'[q]
  BY DEF Append, TypeOK
<1>3. "triage" \in Slots
  BY DEF Slots
<1>4. \A q \in Requests : latest'[q]["triage"] \in TriageFacts
  BY <1>3, AppendChangesOneSlot DEF TypeOK
<1>5. \A f \in pending' :
        f.request \in Requests /\ f.slot \in Slots /\ f.version \in 1..version'[f.request]
  <2> SUFFICES ASSUME NEW f \in pending'
               PROVE  f.request \in Requests /\ f.slot \in Slots /\ f.version \in 1..version'[f.request]
    OBVIOUS
  <2>1. CASE f \in pending
    BY <1>1, <1>2, <2>1 DEF TypeOK
  <2>2. CASE f = [request |-> r, slot |-> slot, value |-> value, version |-> version[r] + 1]
    BY <1>1, <2>2 DEF TypeOK
  <2> QED BY <2>1, <2>2, AppendAccepts
<1>6. ticket' = ticket
  BY DEF Append
<1> QED BY <1>1, <1>4, <1>5, <1>6, AppendChangesOneSlot, AppendAccepts DEF TypeOK

-----------------------------------------------------------------------------
\* An evaluation made now stores a sound digest.
LEMMA EvaluationIsSound ==
  ASSUME TypeOK, NEW r \in Requests, NEW canon, NEW at, NEW outcome,
         canon = CanonicalState(r),
         outcome = "done" => ClosureDone(Current, r, canon)
  PROVE  Sound([outcome |-> outcome, at |-> at, digest |-> Digest(Current, r, canon)])
<1> DEFINE digest == Digest(Current, r, canon)
<1> SUFFICES ASSUME ClosureDone(Current, r, canon)
             PROVE  \/ digest.triage = "REJECTED"
                    \/ digest.triage = "DUPLICATE" /\ digest.canonical[2] = "DONE"
                    \/ /\ digest.triage = "ACCEPTED" /\ digest.blockers = {}
                       /\ \E d \in digest.relations : d.purpose = "required"
                       /\ \A d \in digest.relations : d.purpose = "required" =>
                            /\ d.ticket \in Tickets /\ d.state = "closed" /\ ~d.blocked
                            /\ d.invalidations \in Nat
                            /\ d.invalidations <= ticket[d.ticket].invalidations
                            /\ d.invalidations = ticket[d.ticket].invalidations =>
                                 ~ticket[d.ticket].lateInvalidation
  BY DEF Sound
<1>1. digest.triage = Disposition(Current, r) /\ digest.blockers = ActiveBlockers(Current, r)
  BY DEF Digest
<1>2. CASE Disposition(Current, r) = "REJECTED"
  BY <1>1, <1>2
<1>3. CASE Disposition(Current, r) = "DUPLICATE" /\ canon = "DONE"
  <2>1. Canonical(Current, r) # NoRequest
    BY <1>3 DEF CanonicalState
  <2> QED BY <1>1, <1>3, <2>1 DEF Digest
<1>4. CASE /\ Disposition(Current, r) = "ACCEPTED" /\ ActiveBlockers(Current, r) = {}
           /\ Related(Current, r, "required") # {}
           /\ \A t \in Related(Current, r, "required") : Fulfilled(t)
  <2>1. digest.relations = {RelationDependency(t, latest[r][t]) :
                              t \in {u \in Tickets : latest[r][u] # "none"}}
    BY DEF Digest, Current
  <2>2. Related(Current, r, "required") = {t \in Tickets : latest[r][t] = "required"}
    BY DEF Related, Current
  <2>3. \E d \in digest.relations : d.purpose = "required"
    <3>1. PICK t \in Tickets : latest[r][t] = "required"
      BY <1>4, <2>2
    <3>2. RelationDependency(t, latest[r][t]).purpose = "required"
      BY <3>1 DEF RelationDependency
    <3> QED BY <2>1, <3>1, <3>2
  <2>4. ASSUME NEW d \in digest.relations, d.purpose = "required"
        PROVE  /\ d.ticket \in Tickets /\ d.state = "closed" /\ ~d.blocked
               /\ d.invalidations \in Nat /\ d.invalidations <= ticket[d.ticket].invalidations
               /\ d.invalidations = ticket[d.ticket].invalidations =>
                    ~ticket[d.ticket].lateInvalidation
    <3>1. PICK t \in Tickets : d = RelationDependency(t, latest[r][t])
      BY <2>1
    <3>2. t \in Related(Current, r, "required")
      BY <2>2, <2>4, <3>1 DEF RelationDependency
    <3>3. Fulfilled(t)
      BY <1>4, <3>2
    <3>4. ticket[t].invalidations \in Nat
      BY DEF TypeOK
    <3> QED BY <3>1, <3>3, <3>4 DEF RelationDependency, Fulfilled
  <2> QED BY <1>1, <1>4, <2>3, <2>4
<1> QED BY <1>2, <1>3, <1>4 DEF ClosureDone

\* Every command but a ruling appends a fact that fits.
LEMMA CommandAppends ==
  ASSUME TypeOK, NEW r \in Requests, RequestStep(r)
  PROVE  \/ \E slot \in Slots : \E value : Append(r, slot, value) /\ Fits(r, slot, value)
         \/ RecordRuling(r)
<1>1. CASE Prioritise(r)
  BY <1>1 DEF Prioritise, Fits, Slots
<1>2. CASE AssignOwner(r)
  BY <1>2 DEF AssignOwner, Fits, Slots
<1>3. CASE Accept(r)
  BY <1>3 DEF Accept, Decide, Fits, Slots, TriageFacts, Dispositions
<1>4. CASE Reject(r)
  BY <1>4 DEF Reject, Decide, Fits, Slots, TriageFacts, Dispositions
<1>5. ASSUME NEW c \in Requests, Duplicate(r, c)
      PROVE  \E slot \in Slots : \E value : Append(r, slot, value) /\ Fits(r, slot, value)
  BY <1>5 DEF Duplicate, Decide, Fits, Slots, TriageFacts, Dispositions
<1>6. CASE EvaluateClosure(r)
  <2> DEFINE canon == CanonicalState(r)
             evaluation ==
               [outcome |-> IF ClosureDone(Current, r, canon) THEN "done" ELSE "open",
                at |-> version[r] + 1, digest |-> Digest(Current, r, canon)]
  <2>1. Append(r, "closure", evaluation) /\ holder' = holder
    BY <1>6 DEF EvaluateClosure
  <2>2. Sound(evaluation)
    BY EvaluationIsSound
  <2>3. "closure" \in Slots
    BY DEF Slots
  <2> QED BY <2>1, <2>2, <2>3 DEF Fits
<1>7. ASSUME NEW t \in Tickets, ReleaseTicket(r, t)
      PROVE  \E slot \in Slots : \E value : Append(r, slot, value) /\ Fits(r, slot, value)
  BY <1>7 DEF ReleaseTicket, Fits, Slots
<1>8. ASSUME NEW t \in Tickets, NEW p \in {"required", "optional"}, RelateTicket(r, t, p)
      PROVE  \E slot \in Slots : \E value : Append(r, slot, value) /\ Fits(r, slot, value)
  BY <1>8 DEF RelateTicket, Fits, Slots
<1>9. ASSUME NEW k \in BlockerKeys, SetBlocker(r, k) \/ ClearBlocker(r, k)
      PROVE  \E slot \in Slots : \E value : Append(r, slot, value) /\ Fits(r, slot, value)
  BY <1>9 DEF SetBlocker, ClearBlocker, Fits, Slots
<1> QED BY <1>1, <1>2, <1>3, <1>4, <1>5, <1>6, <1>7, <1>8, <1>9 DEF RequestStep

-----------------------------------------------------------------------------
\* A Request that gets a new disposition names a canonical one that is no
\* duplicate, and no duplicate names it.
LEMMA CommandKeepsFlat ==
  ASSUME TypeOK, DuplicatesStayFlat, NEW r \in Requests, NEW slot \in Slots, NEW value,
         Append(r, slot, value), Fits(r, slot, value)
  PROVE  DuplicatesStayFlat'
<1>1. "triage" \in Slots /\ NoRequest \notin Requests
  BY RequestAssumption DEF Slots
<1>2. \A q \in Requests : latest'[q]["triage"] =
        IF q = r /\ slot = "triage" THEN value ELSE latest[q]["triage"]
  BY <1>1, AppendChangesOneSlot
<1>3. slot = "triage" => /\ ~IsCanonicalTarget(r)
                         /\ value.disposition = "DUPLICATE" =>
                              /\ value.canonical \in Requests \ {r}
                              /\ latest[value.canonical]["triage"].disposition # "DUPLICATE"
  BY RequestAssumption DEF Fits, Disposition, Current
<1>4. IsCanonicalTarget(r) <=>
        \E q \in Requests : latest[q]["triage"].disposition = "DUPLICATE" /\ latest[q]["triage"].canonical = r
  BY DEF IsCanonicalTarget, Disposition, Canonical, Current
<1>5. \A q \in Requests : latest[q]["triage"].disposition = "DUPLICATE" =>
        /\ latest[q]["triage"].canonical \in Requests \ {q}
        /\ latest[latest[q]["triage"].canonical]["triage"].disposition # "DUPLICATE"
  BY DEF DuplicatesStayFlat, Disposition, Canonical, Current
<1>6. \A q \in Requests : latest'[q]["triage"].disposition = "DUPLICATE" =>
        /\ latest'[q]["triage"].canonical \in Requests \ {q}
        /\ latest'[latest'[q]["triage"].canonical]["triage"].disposition # "DUPLICATE"
  BY <1>2, <1>3, <1>4, <1>5
<1> QED BY <1>6 DEF DuplicatesStayFlat, Disposition, Canonical, Current

\* The holder row moves with the relation of the same Ticket.
LEMMA CommandKeepsHolders ==
  ASSUME TypeOK, OneRequestPerTicket, NEW r \in Requests, NEW slot \in Slots, NEW value,
         Append(r, slot, value), Fits(r, slot, value)
  PROVE  OneRequestPerTicket' /\ holder' \in [Tickets -> Requests \cup {NoRequest}]
<1>1. \A q \in Requests, t \in Tickets :
        latest'[q][t] = IF q = r /\ t = slot THEN value ELSE latest[q][t]
  <2> SUFFICES ASSUME NEW q \in Requests, NEW t \in Tickets
               PROVE  latest'[q][t] = IF q = r /\ t = slot THEN value ELSE latest[q][t]
    OBVIOUS
  <2>1. t \in Slots
    BY DEF Slots
  <2> QED BY <2>1, AppendChangesOneSlot
<1>2. holder \in [Tickets -> Requests \cup {NoRequest}] /\ NoRequest \notin Requests
  BY RequestAssumption DEF TypeOK
<1>3. CASE slot \notin Tickets
  <2>1. holder' = holder
    BY <1>3 DEF Fits
  <2> QED BY <1>1, <1>2, <1>3, <2>1 DEF OneRequestPerTicket
<1>4. CASE slot \in Tickets
  <2>1. \/ value # "none" /\ holder[slot] \in {NoRequest, r} /\ holder' = [holder EXCEPT ![slot] = r]
        \/ value = "none" /\ holder[slot] = r /\ holder' = [holder EXCEPT ![slot] = NoRequest]
    BY <1>4, RequestAssumption DEF Fits
  <2> QED BY <1>1, <1>2, <1>4, <2>1 DEF OneRequestPerTicket
<1> QED BY <1>3, <1>4

\* A fact confirmed at once leaves nothing of its slot to wait for; one left
\* behind is the newest of its slot.
LEMMA CommandKeepsLag ==
  ASSUME TypeOK, Lag, NEW r \in Requests, NEW slot \in Slots, NEW value, Append(r, slot, value)
  PROVE  Lag'
<1> SUFFICES ASSUME NEW q \in Requests, NEW s \in Slots,
                    accepted'[q][s] # latest'[q][s] \/ \E g \in pending' : g.request = q /\ g.slot = s
             PROVE  \E f \in pending' :
                      /\ f.request = q /\ f.slot = s /\ f.value = latest'[q][s]
                      /\ \A g \in pending' : g.request = q /\ g.slot = s /\ g # f => g.version < f.version
  BY DEF Lag, LatestPends
<1>1. latest'[q][s] = IF q = r /\ s = slot THEN value ELSE latest[q][s]
  BY AppendChangesOneSlot
<1>2. \A g \in pending : g.version \in 1..version[g.request]
  BY DEF TypeOK
<1>3. version[r] \in Nat
  BY DEF TypeOK
<1>4. CASE /\ pending' = pending \cup {[request |-> r, slot |-> slot, value |-> value,
                                        version |-> version[r] + 1]}
           /\ UNCHANGED acceptedVars
  <2> DEFINE new == [request |-> r, slot |-> slot, value |-> value, version |-> version[r] + 1]
  <2>1. CASE q = r /\ s = slot
    <3>1. \A g \in pending : g.request = q /\ g.slot = s => g.version < new.version
      BY <1>2, <1>3, <2>1
    <3> QED BY <1>1, <1>4, <2>1, <3>1
  <2>2. CASE ~(q = r /\ s = slot)
    <3>1. \A g \in pending' : g.request = q /\ g.slot = s => g \in pending
      BY <1>4, <2>2
    <3>2. accepted[q][s] # latest[q][s] \/ \E g \in pending : g.request = q /\ g.slot = s
      BY <1>1, <1>4, <2>2, <3>1 DEF acceptedVars
    <3>3. PICK f \in pending :
            /\ f.request = q /\ f.slot = s /\ f.value = latest[q][s]
            /\ \A g \in pending : g.request = q /\ g.slot = s /\ g # f => g.version < f.version
      BY <3>2 DEF Lag, LatestPends
    <3> QED BY <1>1, <1>4, <2>2, <3>1, <3>3
  <2> QED BY <2>1, <2>2
<1>5. CASE /\ accepted' = [accepted EXCEPT ![r] = [@ EXCEPT ![slot] = value]]
           /\ pending' = pending \ Superseded(r, slot, version[r])
  <2>1. DOMAIN accepted = Requests /\ DOMAIN accepted[r] = Slots
    BY DEF TypeOK
  <2>2. CASE q = r /\ s = slot
    <3>1. accepted'[q][s] = value
      BY <1>5, <2>1, <2>2
    <3>2. \A g \in pending : g.request = q /\ g.slot = s => g \in Superseded(r, slot, version[r])
      BY <1>2, <1>3, <2>2 DEF Superseded
    <3> QED BY <1>1, <1>5, <2>2, <3>1, <3>2
  <2>3. CASE ~(q = r /\ s = slot)
    <3>1. accepted'[q][s] = accepted[q][s]
      BY <1>5, <2>1, <2>3 DEF TypeOK
    <3>2. pending' \subseteq pending
          /\ \A g \in pending : g.request = q /\ g.slot = s => g \in pending'
      BY <1>5, <2>3 DEF Superseded
    <3>3. accepted[q][s] # latest[q][s] \/ \E g \in pending : g.request = q /\ g.slot = s
      BY <1>1, <2>3, <3>1, <3>2
    <3>4. PICK f \in pending :
            /\ f.request = q /\ f.slot = s /\ f.value = latest[q][s]
            /\ \A g \in pending : g.request = q /\ g.slot = s /\ g # f => g.version < f.version
      BY <3>3 DEF Lag, LatestPends
    <3> QED BY <1>1, <2>3, <3>2, <3>4
  <2> QED BY <2>2, <2>3
<1> QED BY <1>4, <1>5 DEF Append

\* The evaluations stored before keep their meaning; the new one fits.
LEMMA CommandKeepsSound ==
  ASSUME TypeOK, AllSound, NEW r \in Requests, NEW slot \in Slots, NEW value,
         Append(r, slot, value), Fits(r, slot, value)
  PROVE  AllSound'
<1>1. "closure" \in Slots /\ ticket' = ticket
  BY DEF Slots, Append
<1>2. slot = "closure" => Sound(value)
  BY RequestAssumption DEF Fits
<1>3. ASSUME NEW c, Sound(c)
      PROVE  Sound(c)'
  BY <1>1, <1>3 DEF Sound
<1>4. ASSUME NEW q \in Requests
      PROVE  Sound(latest'[q]["closure"]) /\ Sound(accepted'[q]["closure"])
  BY <1>1, <1>2, AppendChangesOneSlot, AppendAccepts DEF AllSound
<1>5. ASSUME NEW f \in pending', f.slot = "closure"
      PROVE  Sound(f.value)
  <2>1. CASE f \in pending
    BY <1>5, <2>1 DEF AllSound
  <2>2. CASE f = [request |-> r, slot |-> slot, value |-> value, version |-> version[r] + 1]
    BY <1>2, <1>5, <2>2
  <2> QED BY <2>1, <2>2, AppendAccepts
<1> QED BY <1>1, <1>4, <1>5 DEF AllSound, Sound

LEMMA CommandKeeps ==
  ASSUME IInv, NEW r \in Requests, RequestStep(r)
  PROVE  IInv'
<1> USE DEF IInv
<1>1. CASE \E slot \in Slots : \E value : Append(r, slot, value) /\ Fits(r, slot, value)
  <2>1. PICK slot \in Slots : \E value : Append(r, slot, value) /\ Fits(r, slot, value)
    BY <1>1
  <2>2. PICK value : Append(r, slot, value) /\ Fits(r, slot, value)
    BY <2>1
  <2>3. slot = "triage" => value \in TriageFacts
    BY <2>2, RequestAssumption DEF Fits
  <2>4. OneRequestPerTicket' /\ holder' \in [Tickets -> Requests \cup {NoRequest}]
    BY <2>2, CommandKeepsHolders
  <2>5. TypeOK'
    BY <2>2, <2>3, <2>4, AppendKeepsTypes
  <2> QED BY <2>2, <2>4, <2>5, CommandKeepsFlat, CommandKeepsLag, CommandKeepsSound
<1>2. CASE RecordRuling(r)
  BY <1>2 DEF RecordRuling, acceptedVars, TypeOK, DuplicatesStayFlat, Disposition, Canonical, Current,
              OneRequestPerTicket, Lag, LatestPends, AllSound, Sound
<1> QED BY <1>1, <1>2, CommandAppends

\* A confirmation of the newest fact of a slot leaves the list and the facts
\* equal there; that of another one leaves the newest waiting.
LEMMA ConfirmFactKeeps ==
  ASSUME IInv, NEW h \in pending, ConfirmFact(h)
  PROVE  IInv'
<1> DEFINE r == h.request
           slot == h.slot
<1> USE DEF IInv
<1>1. /\ r \in Requests /\ slot \in Slots /\ h.version \in Nat
      /\ DOMAIN accepted = Requests /\ \A q \in Requests : DOMAIN accepted[q] = Slots
  BY DEF TypeOK
<1>2. /\ latest' = latest /\ version' = version /\ holder' = holder /\ ticket' = ticket
      /\ pending' \subseteq pending
  BY DEF ConfirmFact
<1>3. /\ DOMAIN accepted' = Requests /\ \A q \in Requests : DOMAIN accepted'[q] = Slots
      /\ \A q \in Requests, s \in Slots :
           accepted'[q][s] = IF q = r /\ s = slot THEN h.value ELSE accepted[q][s]
  BY <1>1 DEF ConfirmFact
<1>4. acceptedVersion' \in [Requests -> Nat]
  BY <1>1 DEF ConfirmFact, TypeOK
<1>5. TypeOK'
  BY <1>2, <1>3, <1>4 DEF TypeOK
<1>6. DuplicatesStayFlat' /\ OneRequestPerTicket'
  BY <1>2 DEF DuplicatesStayFlat, OneRequestPerTicket, Disposition, Canonical, Current
<1>7. AllSound'
  <2>1. "closure" \in Slots
    BY DEF Slots
  <2>2. ASSUME NEW c, Sound(c)
        PROVE  Sound(c)'
    BY <1>2, <2>2 DEF Sound
  <2>3. \A q \in Requests : Sound(latest'[q]["closure"]) /\ Sound(accepted'[q]["closure"])
    BY <1>1, <1>2, <1>3, <2>1 DEF AllSound
  <2>4. \A f \in pending' : f.slot = "closure" => Sound(f.value)
    BY <1>2 DEF AllSound
  <2> QED BY <1>2, <2>3, <2>4 DEF AllSound, Sound
<1>8. Lag'
  <2> SUFFICES ASSUME NEW q \in Requests, NEW s \in Slots,
                      accepted'[q][s] # latest'[q][s] \/ \E g \in pending' : g.request = q /\ g.slot = s
               PROVE  \E f \in pending' :
                        /\ f.request = q /\ f.slot = s /\ f.value = latest'[q][s]
                        /\ \A g \in pending' : g.request = q /\ g.slot = s /\ g # f => g.version < f.version
    BY DEF Lag, LatestPends
  <2>1. accepted[q][s] # latest[q][s] \/ \E g \in pending : g.request = q /\ g.slot = s
    BY <1>2, <1>3
  <2>2. PICK f \in pending :
          /\ f.request = q /\ f.slot = s /\ f.value = latest[q][s]
          /\ \A g \in pending : g.request = q /\ g.slot = s /\ g # f => g.version < f.version
    BY <2>1 DEF Lag, LatestPends
  <2>3. f.version \in Nat
    BY DEF TypeOK
  <2>4. f \notin {h} \cup Superseded(r, slot, h.version)
    <3> SUFFICES ASSUME f \in {h} \cup Superseded(r, slot, h.version)
                 PROVE  FALSE
      OBVIOUS
    <3>1. q = r /\ s = slot /\ f.version <= h.version
      BY <1>1, <2>2 DEF Superseded
    <3>2. f = h
      BY <1>1, <2>2, <2>3, <3>1
    <3>3. accepted'[q][s] = latest'[q][s]
      BY <1>2, <1>3, <2>2, <3>1, <3>2
    <3>4. \A g \in pending : g.request = q /\ g.slot = s => g \in {h} \cup Superseded(r, slot, h.version)
      <4> SUFFICES ASSUME NEW g \in pending, g.request = q, g.slot = s, g # h
                   PROVE  g \in Superseded(r, slot, h.version)
        OBVIOUS
      <4>1. g.version \in Nat /\ g.version < h.version
        BY <2>2, <3>2 DEF TypeOK
      <4> QED BY <1>1, <3>1, <4>1 DEF Superseded
    <3> QED BY <3>3, <3>4 DEF ConfirmFact
  <2> QED BY <1>2, <2>2, <2>4 DEF ConfirmFact
<1> QED BY <1>5, <1>6, <1>7, <1>8

LEMMA ConfirmRulingKeeps ==
  ASSUME IInv, NEW x \in rulings, ConfirmRuling(x)
  PROVE  IInv'
BY DEF ConfirmRuling, IInv, acceptedVars, TypeOK, DuplicatesStayFlat, Disposition, Canonical, Current,
       OneRequestPerTicket, Lag, LatestPends, AllSound, Sound

TicketRow == [state : {"open", "active", "closed"}, blocked : BOOLEAN, proof : Nat,
              invalidations : Nat, lateInvalidation : BOOLEAN]

\* What a step of a Ticket makes of its row.
Later(row, changed) ==
  /\ changed \in TicketRow /\ row.invalidations <= changed.invalidations
  /\ changed.invalidations = row.invalidations =>
       (changed.lateInvalidation => row.lateInvalidation)

LEMMA SameInvalidations ==
  ASSUME NEW row \in TicketRow, NEW changed \in TicketRow,
         changed.invalidations = row.invalidations,
         changed.lateInvalidation => row.lateInvalidation
  PROVE  Later(row, changed)
BY DEF Later, TicketRow

LEMMA RowsGrow ==
  ASSUME NEW row \in TicketRow, NEW late \in BOOLEAN
  PROVE  /\ \A l \in {FALSE, row.lateInvalidation} :
              Later(row, [row EXCEPT !.state = "closed", !.lateInvalidation = l])
         /\ \A s \in {"open", "active"} : Later(row, [row EXCEPT !.state = s])
         /\ \A b \in BOOLEAN : Later(row, [row EXCEPT !.blocked = b])
         /\ Later(row, [row EXCEPT !.proof = @ + 1])
         /\ Later(row, [row EXCEPT !.proof = @ + 1, !.invalidations = @ + 1, !.lateInvalidation = late])
<1>1. ASSUME NEW l \in {FALSE, row.lateInvalidation}
      PROVE  Later(row, [row EXCEPT !.state = "closed", !.lateInvalidation = l])
  <2> DEFINE changed == [row EXCEPT !.state = "closed", !.lateInvalidation = l]
  <2>0. l \in BOOLEAN /\ (l => row.lateInvalidation)
    BY DEF TicketRow
  <2>1. changed \in TicketRow
    BY <2>0, Zenon DEF TicketRow
  <2>2. changed.invalidations = row.invalidations /\ changed.lateInvalidation = l
    BY DEF TicketRow
  <2>3. changed.lateInvalidation => row.lateInvalidation
    BY <2>0, <2>2
  <2> HIDE DEF changed
  <2>4. Later(row, changed)
    BY <2>1, <2>2, <2>3, SameInvalidations
  <2> QED BY <2>4 DEF changed
<1>2. ASSUME NEW s \in {"open", "active"}
      PROVE  Later(row, [row EXCEPT !.state = s])
  <2> DEFINE changed == [row EXCEPT !.state = s]
  <2>1. changed \in TicketRow
    BY DEF TicketRow
  <2>2. changed.invalidations = row.invalidations /\ changed.lateInvalidation = row.lateInvalidation
    BY DEF TicketRow
  <2> HIDE DEF changed
  <2>3. Later(row, changed)
    BY <2>1, <2>2, SameInvalidations
  <2> QED BY <2>3 DEF changed
<1>3. ASSUME NEW b \in BOOLEAN
      PROVE  Later(row, [row EXCEPT !.blocked = b])
  <2> DEFINE changed == [row EXCEPT !.blocked = b]
  <2>1. changed \in TicketRow
    BY DEF TicketRow
  <2>2. changed.invalidations = row.invalidations /\ changed.lateInvalidation = row.lateInvalidation
    BY DEF TicketRow
  <2> HIDE DEF changed
  <2>3. Later(row, changed)
    BY <2>1, <2>2, SameInvalidations
  <2> QED BY <2>3 DEF changed
<1>4. Later(row, [row EXCEPT !.proof = @ + 1])
  <2> DEFINE changed == [row EXCEPT !.proof = @ + 1]
  <2>1. changed \in TicketRow
    BY DEF TicketRow
  <2>2. changed.invalidations = row.invalidations /\ changed.lateInvalidation = row.lateInvalidation
    BY DEF TicketRow
  <2> HIDE DEF changed
  <2>3. Later(row, changed)
    BY <2>1, <2>2, SameInvalidations
  <2> QED BY <2>3 DEF changed
<1>5. Later(row, [row EXCEPT !.proof = @ + 1, !.invalidations = @ + 1, !.lateInvalidation = late])
  <2> DEFINE changed == [row EXCEPT !.proof = @ + 1, !.invalidations = @ + 1, !.lateInvalidation = late]
  <2>1. changed \in TicketRow
    <3>1. row.proof + 1 \in Nat /\ row.invalidations + 1 \in Nat
      BY DEF TicketRow
    <3> QED BY <3>1, Zenon DEF TicketRow
  <2>2. changed.invalidations = row.invalidations + 1 /\ row.invalidations \in Nat
    BY DEF TicketRow
  <2> HIDE DEF changed
  <2>3. Later(row, changed)
    BY <2>1, <2>2 DEF Later
  <2> QED BY <2>3 DEF changed
<1> QED BY <1>1, <1>2, <1>3, <1>4, <1>5

\* A late invalidation of a closed Ticket is one more than any digest has seen.
LEMMA TicketKeeps ==
  ASSUME IInv, NEW t \in Tickets, TicketStep(t)
  PROVE  IInv'
<1> USE DEF IInv
<1>1. ticket \in [Tickets -> TicketRow]
  BY DEF TypeOK, TicketRow
<1>2. ticket[t] \in TicketRow
  BY <1>1
<1>3. PICK changed : ChangeTicket(t, changed) /\ Later(ticket[t], changed)
  <2>1. CASE CloseTicket(t)
    BY <1>2, <2>1, RowsGrow DEF CloseTicket
  <2>7. CASE ReopenTicket(t)
    BY <1>2, <2>7, RowsGrow DEF ReopenTicket
  <2>2. CASE AdmitTicket(t)
    BY <1>2, <2>2, RowsGrow DEF AdmitTicket
  <2>3. CASE BlockTicket(t)
    BY <1>2, <2>3, RowsGrow DEF BlockTicket
  <2>6. CASE UnblockTicket(t)
    BY <1>2, <2>6, RowsGrow DEF UnblockTicket
  <2>4. CASE RecordProof(t)
    BY <1>2, <2>4, RowsGrow DEF RecordProof
  <2>5. CASE InvalidateProof(t)
    <3>1. PICK late \in {TRUE, ticket[t].lateInvalidation} :
            ChangeTicket(t, [ticket[t] EXCEPT !.proof = @ + 1, !.invalidations = @ + 1,
                                              !.lateInvalidation = late])
      BY <2>5 DEF InvalidateProof
    <3>2. late \in BOOLEAN
      BY <1>2 DEF TicketRow
    <3> QED BY <1>2, <3>1, <3>2, RowsGrow
  <2> QED BY <2>1, <2>2, <2>3, <2>4, <2>5, <2>6, <2>7 DEF TicketStep
<1>4. /\ latest' = latest /\ accepted' = accepted /\ pending' = pending /\ holder' = holder
      /\ version' = version /\ acceptedVersion' = acceptedVersion
  BY <1>3 DEF ChangeTicket, acceptedVars
<1>5. ticket' \in [Tickets -> TicketRow] /\ \A u \in Tickets : ticket'[u] = IF u = t THEN changed ELSE ticket[u]
  BY <1>1, <1>3 DEF ChangeTicket, Later
<1>6. ASSUME NEW c, Sound(c)
      PROVE  Sound(c)'
  <2>1. ASSUME NEW u \in Tickets, NEW n \in Nat, n <= ticket[u].invalidations,
               n = ticket[u].invalidations => ~ticket[u].lateInvalidation
        PROVE  /\ n <= ticket'[u].invalidations
               /\ n = ticket'[u].invalidations => ~ticket'[u].lateInvalidation
    <3>1. /\ ticket[u].invalidations \in Nat /\ ticket'[u].invalidations \in Nat
          /\ ticket[u].invalidations <= ticket'[u].invalidations
          /\ ticket'[u].invalidations = ticket[u].invalidations =>
               (ticket'[u].lateInvalidation => ticket[u].lateInvalidation)
      BY <1>1, <1>3, <1>5 DEF Later, TicketRow
    <3> QED BY <2>1, <3>1
  <2> QED BY <1>6, <2>1 DEF Sound
<1>7. TypeOK' /\ DuplicatesStayFlat' /\ OneRequestPerTicket' /\ Lag'
  BY <1>3, <1>4, <1>5 DEF Later, TicketRow, TypeOK, DuplicatesStayFlat, Disposition, Canonical, Current, OneRequestPerTicket,
                    Lag, LatestPends
<1>8. AllSound'
  BY <1>4, <1>6 DEF AllSound
<1> QED BY <1>7, <1>8

-----------------------------------------------------------------------------
LEMMA InitHolds == Init => IInv
<1> SUFFICES ASSUME Init
             PROVE  IInv
  OBVIOUS
<1>1. PICK start \in [Requests -> Starts], prioritised \in SUBSET Requests :
        latest = [r \in Requests |->
          [CaptureFacts EXCEPT
             !["priority"] = IF r \in prioritised THEN "explicit" ELSE "default",
             !["triage"].disposition = start[r]]]
  BY DEF Init
<1>10. /\ version = [r \in Requests |-> 3] /\ acceptedVersion = version /\ accepted = latest
       /\ pending = {} /\ holder = [t \in Tickets |-> NoRequest]
       /\ ticket = [t \in Tickets |-> [state |-> "active", blocked |-> FALSE, proof |-> 0,
                                        invalidations |-> 0, lateInvalidation |-> FALSE]]
  BY DEF Init
<1>2. /\ {"triage", "closure"} \cup Tickets \subseteq Slots
      /\ NoRequest \notin Requests /\ "triage" \notin Tickets /\ "priority" \notin Tickets
      /\ "closure" \notin Tickets /\ "owner" \notin Tickets
      /\ "triage" \notin BlockerKeys /\ "closure" \notin BlockerKeys
  BY RequestAssumption DEF Slots
<1>3. /\ DOMAIN CaptureFacts = Slots
      /\ CaptureFacts["triage"] = [disposition |-> "UNTRIAGED", canonical |-> NoRequest]
      /\ CaptureFacts["closure"] = NoClosure
      /\ \A t \in Tickets : CaptureFacts[t] = "none"
  <2>1. DOMAIN CaptureFacts = Slots
    BY DEF CaptureFacts
  <2>2. CaptureFacts["triage"] = [disposition |-> "UNTRIAGED", canonical |-> NoRequest]
    BY <1>2 DEF CaptureFacts
  <2>3. CaptureFacts["closure"] = NoClosure
    BY <1>2 DEF CaptureFacts
  <2>4. ASSUME NEW t \in Tickets
        PROVE  CaptureFacts[t] = "none"
    <3>1. /\ t \in Slots /\ t \notin BlockerKeys
          /\ t # "priority" /\ t # "owner" /\ t # "triage" /\ t # "closure"
      BY <1>2, RequestAssumption
    <3> QED BY <3>1 DEF CaptureFacts
  <2> QED BY <2>1, <2>2, <2>3, <2>4
<1>4. ASSUME NEW r \in Requests
      PROVE  /\ DOMAIN latest[r] = Slots /\ latest[r]["closure"] = NoClosure
             /\ latest[r]["triage"] = [disposition |-> start[r], canonical |-> NoRequest]
             /\ \A t \in Tickets : latest[r][t] = "none"
  <2>1. latest[r] = [CaptureFacts EXCEPT
                       !["priority"] = IF r \in prioritised THEN "explicit" ELSE "default",
                       !["triage"].disposition = start[r]]
    BY <1>1
  <2>2. /\ DOMAIN latest[r] = Slots
        /\ latest[r]["triage"] = [CaptureFacts["triage"] EXCEPT !.disposition = start[r]]
        /\ \A s \in Slots \ {"priority", "triage"} : latest[r][s] = CaptureFacts[s]
    BY <1>2, <1>3, <2>1
  <2> QED BY <1>2, <1>3, <2>2
<1>5. TypeOK
  <2>1. ASSUME NEW r \in Requests
        PROVE  latest[r]["triage"] \in TriageFacts
    <3>1. start[r] \in Dispositions
      BY <1>1, StartAssumption
    <3>2. latest[r]["triage"] = [disposition |-> start[r], canonical |-> NoRequest]
      BY <1>4
    <3> QED BY <3>1, <3>2 DEF TriageFacts
  <2>2. DOMAIN latest = Requests
    BY <1>1
  <2>3. /\ version \in [Requests -> Nat] /\ acceptedVersion \in [Requests -> Nat]
        /\ DOMAIN accepted = Requests /\ holder \in [Tickets -> Requests \cup {NoRequest}]
        /\ \A r \in Requests : DOMAIN accepted[r] = Slots
    BY <1>4, <1>10, <2>2
  <2>4. ticket \in [Tickets -> [state : {"open", "active", "closed"}, blocked : BOOLEAN, proof : Nat,
                               invalidations : Nat, lateInvalidation : BOOLEAN]]
    BY <1>10
  <2> QED BY <1>4, <1>10, <2>1, <2>2, <2>3, <2>4 DEF TypeOK
<1>6. DuplicatesStayFlat
  <2>1. ASSUME NEW r \in Requests
        PROVE  latest[r]["triage"].disposition # "DUPLICATE"
    <3>1. start[r] # "DUPLICATE"
      BY <1>1, StartAssumption
    <3>2. latest[r]["triage"] = [disposition |-> start[r], canonical |-> NoRequest]
      BY <1>4
    <3> QED BY <3>1, <3>2
  <2> QED BY <2>1 DEF DuplicatesStayFlat, Disposition, Current
<1>7. OneRequestPerTicket
  BY <1>2, <1>4, <1>10 DEF OneRequestPerTicket
<1>8. Lag
  BY <1>10 DEF Lag
<1>9. AllSound
  <2>1. Sound(NoClosure)
    BY DEF Sound, NoClosure
  <2>2. \A r \in Requests : latest[r]["closure"] = NoClosure /\ accepted = latest /\ pending = {}
    BY <1>4, <1>10
  <2> QED BY <2>1, <2>2, <1>10 DEF AllSound
<1> QED BY <1>5, <1>6, <1>7, <1>8, <1>9 DEF IInv

LEMMA InvariantHolds == Spec => []IInv
<1>1. IInv /\ [Next]_vars => IInv'
  <2> SUFFICES ASSUME IInv, [Next]_vars
               PROVE  IInv'
    OBVIOUS
  <2>1. CASE UNCHANGED vars
    BY <2>1 DEF vars, acceptedVars, IInv, TypeOK, DuplicatesStayFlat, Disposition, Canonical, Current,
                OneRequestPerTicket, Lag, LatestPends, AllSound, Sound
  <2>2. CASE Next
    BY <2>2, CommandKeeps, ConfirmFactKeeps, ConfirmRulingKeeps, TicketKeeps DEF Next
  <2> QED BY <2>1, <2>2
<1> QED BY InitHolds, <1>1, PTL DEF Spec

-----------------------------------------------------------------------------
\* Versions, facts, holders and rows stay in their types, without any bound.
THEOREM TypeCorrect == Spec => []TypeOK
<1>1. IInv => TypeOK
  BY DEF IInv
<1> QED BY InvariantHolds, <1>1, PTL

\* Through any number of triages of any number of Requests no canonical Request
\* is itself a duplicate, so that what a command derives is always defined.
THEOREM DuplicatesFlat == Spec => []DuplicatesStayFlat
<1>1. IInv => DuplicatesStayFlat
  BY DEF IInv
<1> QED BY InvariantHolds, <1>1, PTL

\* The holder row of a Ticket names exactly the Request whose facts relate it.
THEOREM HolderIsRelation == Spec => []OneRequestPerTicket
<1>1. IInv => OneRequestPerTicket
  BY DEF IInv
<1> QED BY InvariantHolds, <1>1, PTL

\* When the list shows a Ticket under two Requests, or a duplicate of a
\* duplicate, the fact that ends it waits for its confirmation.
THEOREM ListClashesPend == Spec => []ClashesArePending
<1>1. IInv => ClashesArePending
  <2> SUFFICES ASSUME IInv, NEW r \in Requests, NEW q \in Requests, r # q
               PROVE  /\ \A t \in Tickets : accepted[r][t] # "none" /\ accepted[q][t] # "none" =>
                           \E f \in pending : f.request \in {r, q} /\ f.slot \in {t}
                      /\ (/\ Disposition(Accepted, r) = "DUPLICATE" /\ Canonical(Accepted, r) = q
                          /\ Disposition(Accepted, q) = "DUPLICATE") =>
                           \E f \in pending : f.request \in {r, q} /\ f.slot \in {"triage"}
    BY DEF ClashesArePending
  <2>1. ASSUME NEW p \in {r, q}, NEW s \in Slots, accepted[p][s] # latest[p][s]
        PROVE  \E f \in pending : f.request \in {r, q} /\ f.slot \in {s}
    BY <2>1 DEF IInv, Lag, LatestPends
  <2>2. ASSUME NEW t \in Tickets, accepted[r][t] # "none", accepted[q][t] # "none"
        PROVE  \E f \in pending : f.request \in {r, q} /\ f.slot \in {t}
    <3>1. t \in Slots
      BY DEF Slots
    <3>2. latest[r][t] = "none" \/ latest[q][t] = "none"
      BY DEF IInv, OneRequestPerTicket
    <3> QED BY <2>1, <2>2, <3>1, <3>2
  <2>3. ASSUME accepted[r]["triage"].disposition = "DUPLICATE", accepted[r]["triage"].canonical = q,
               accepted[q]["triage"].disposition = "DUPLICATE"
        PROVE  \E f \in pending : f.request \in {r, q} /\ f.slot \in {"triage"}
    <3>1. "triage" \in Slots
      BY DEF Slots
    <3>2. \/ accepted[r]["triage"] # latest[r]["triage"]
          \/ accepted[q]["triage"] # latest[q]["triage"]
      BY <2>3 DEF IInv, DuplicatesStayFlat, Disposition, Canonical, Current
    <3> QED BY <2>1, <3>1, <3>2
  <2> QED BY <2>2, <2>3 DEF Disposition, Canonical, Accepted
<1> QED BY InvariantHolds, <1>1, PTL

-----------------------------------------------------------------------------
\* A sound evaluation whose digest is the one of now would be made again.
LEMMA EqualDigestJustifies ==
  ASSUME TypeOK, NEW v, NEW r \in Requests, NEW canon,
         canon # Raises, Sound(v.facts[r]["closure"]),
         DerivedFrom(v, r, canon) = "DONE"
  PROVE  ClosureDone(v, r, canon)
<1> DEFINE c == v.facts[r]["closure"]
           relations == {RelationDependency(t, v.facts[r][t]) :
                           t \in {u \in Tickets : v.facts[r][u] # "none"}}
<1>1. c.outcome = "done" /\ c.digest = Digest(v, r, canon)
  BY DEF DerivedFrom, SaysDone, Raises
<1>2. /\ c.digest.triage = Disposition(v, r) /\ c.digest.blockers = ActiveBlockers(v, r)
      /\ c.digest.relations = relations
      /\ c.digest.canonical[2] = IF Canonical(v, r) = NoRequest THEN "none" ELSE canon
  BY <1>1 DEF Digest
<1>3. \/ c.digest.triage = "REJECTED"
      \/ c.digest.triage = "DUPLICATE" /\ c.digest.canonical[2] = "DONE"
      \/ /\ c.digest.triage = "ACCEPTED" /\ c.digest.blockers = {}
         /\ \E d \in c.digest.relations : d.purpose = "required"
         /\ \A d \in c.digest.relations : d.purpose = "required" =>
              /\ d.state = "closed" /\ ~d.blocked
              /\ d.invalidations = ticket[d.ticket].invalidations =>
                   ~ticket[d.ticket].lateInvalidation
  BY <1>1 DEF Sound
<1>4. CASE c.digest.triage = "REJECTED"
  BY <1>2, <1>4 DEF ClosureDone
<1>5. CASE c.digest.triage = "DUPLICATE" /\ c.digest.canonical[2] = "DONE"
  BY <1>2, <1>5 DEF ClosureDone
<1>6. CASE /\ c.digest.triage = "ACCEPTED" /\ c.digest.blockers = {}
           /\ \E d \in c.digest.relations : d.purpose = "required"
           /\ \A d \in c.digest.relations : d.purpose = "required" =>
                /\ d.state = "closed" /\ ~d.blocked
                /\ d.invalidations = ticket[d.ticket].invalidations =>
                     ~ticket[d.ticket].lateInvalidation
  <2>1. \A t \in Tickets : RelationDependency(t, v.facts[r][t]).purpose = v.facts[r][t]
    BY DEF RelationDependency
  <2>2. Related(v, r, "required") # {}
    <3>1. PICK d \in relations : d.purpose = "required"
      BY <1>2, <1>6
    <3>2. PICK t \in Tickets : d = RelationDependency(t, v.facts[r][t])
      OBVIOUS
    <3> QED BY <2>1, <3>1, <3>2 DEF Related
  <2>3. ASSUME NEW t \in Related(v, r, "required")
        PROVE  Fulfilled(t)
    <3>1. t \in Tickets /\ v.facts[r][t] = "required"
      BY DEF Related
    <3>2. RelationDependency(t, v.facts[r][t]) \in c.digest.relations
      BY <1>2, <3>1
    <3> DEFINE d == RelationDependency(t, v.facts[r][t])
    <3>3. /\ d.ticket = t /\ d.state = ticket[t].state /\ d.blocked = ticket[t].blocked
          /\ d.invalidations = ticket[t].invalidations /\ d.purpose = "required"
      BY <3>1 DEF RelationDependency
    <3> HIDE DEF d
    <3>4. d.state = "closed" /\ ~d.blocked /\ ~ticket[t].lateInvalidation
      BY <1>6, <3>2, <3>3 DEF d
    <3> QED BY <3>3, <3>4 DEF Fulfilled
  <2> QED BY <1>2, <1>6, <2>2, <2>3 DEF ClosureDone
<1> QED BY <1>3, <1>4, <1>5, <1>6

\* A Request that a command or the list shows as DONE would be evaluated as done
\* now: no change of a Ticket, a proof, a blocker or a canonical Request that
\* matters escapes the digest.
THEOREM DoneIsSound == Spec => []DoneIsJustified
<1>1. IInv => DoneIsJustified
  <2> SUFFICES ASSUME IInv, NEW v \in {Current, Accepted}, NEW r \in Requests,
                      NEW canon \in States \cup {"none"}, DerivedFrom(v, r, canon) = "DONE"
               PROVE  ClosureDone(v, r, canon)
    BY DEF DoneIsJustified
  <2>1. Sound(v.facts[r]["closure"])
    BY DEF IInv, AllSound, Current, Accepted
  <2>2. canon # Raises
    BY DEF States, Raises
  <2> QED BY <2>1, <2>2, EqualDigestJustifies DEF IInv
<1> QED BY InvariantHolds, <1>1, PTL
=============================================================================
