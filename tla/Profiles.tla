------------------------------ MODULE Profiles ------------------------------
(***************************************************************************)
(* UserProfileService: the profiles of one wallet. Requests in several      *)
(* instances create a profile, amend it (each amendment reads the whole     *)
(* record, changes it and writes it back) and delete it, over a record, an  *)
(* index and a wallet key in Redis, and over maps of their own instance     *)
(* when a call fails. Nothing holds the keys between a read and a write.    *)
(***************************************************************************)
EXTENDS Naturals, FiniteSets

CONSTANTS
  Edits,        \* the requests; a profile is named by the request that created it
  Site,         \* the instance of each
  NoProfile,
  MaxSetbacks   \* bounds the failing calls

Sites == {Site[q] : q \in Edits}
Missing == [there |-> FALSE, marks |-> {}]
NoEdit == [kind |-> "none", phase |-> "new", id |-> NoProfile, copy |-> Missing]

VARIABLES
  profile,      \* profile:<id>: is it there, and the amendments it carries
  index,        \* profiles:index
  wallet,       \* profiles:by-wallet:<address>
  own,          \* per instance: the fallback maps
  edit,         \* per request: what it does to which profile, and the copy it read
  setbacks,
  free,         \* history: creations that found no profile of the wallet
  raced,        \* history: profiles created beside another one, or whose wallet
                \* key went with the deletion of another one
  revived,      \* history: profiles written back after their deletion
  overlapped    \* history: profiles that met two amendments at once, or a failure

vars == <<profile, index, wallet, own, edit, setbacks, free, raced, revived, overlapped>>

Init ==
  /\ profile = [p \in Edits |-> Missing] /\ index = {} /\ wallet = NoProfile
  /\ own = [s \in Sites |-> [profile |-> [p \in Edits |-> Missing], wallet |-> NoProfile]]
  /\ edit = [q \in Edits |-> NoEdit] /\ setbacks = 0
  /\ free = {} /\ raced = {} /\ revived = {} /\ overlapped = {}

Setback == setbacks < MaxSetbacks /\ setbacks' = setbacks + 1
Does(q, kind, phase, p, copy) ==
  edit' = [edit EXCEPT ![q] = [kind |-> kind, phase |-> phase, id |-> p, copy |-> copy]]
Finishes(q) == edit' = [edit EXCEPT ![q].phase = "done"]
Mine(q) == own[Site[q]]
There(p) == p # NoProfile /\ profile[p].there
Alive == {p \in Edits : There(p)}
Using(p) == {q \in Edits : edit[q].id = p /\ edit[q].phase = "write"}

----------------------------------------------------------------------------
\* Variant: the profile that was found is ignored.
Taken(q, found) == found # NoProfile /\ found = q
\* create throws ConflictException if the wallet has a profile.
Conflicts(q, found) == found # NoProfile

(* create: is there a profile of the wallet (wallet key, then record)? The two   *)
(* GETs are one step: as a record and its key go together, what they find is so  *)
(* at some moment between them. If one fails it is taken to be the first.        *)
LookForWallet(q) ==
  /\ edit[q] = NoEdit
  /\ \E found \in Edits \cup {NoProfile} :
       /\ \/ found = (IF There(wallet) THEN wallet ELSE NoProfile) /\ UNCHANGED setbacks
          \/ found = Mine(q).wallet /\ Setback
       /\ Does(q, "create", IF Conflicts(q, found) THEN "done" ELSE "write", q, Missing)
  /\ free' = IF There(wallet) THEN free ELSE free \cup {q}
  /\ UNCHANGED <<profile, index, wallet, own, raced, revived, overlapped>>

Filed(q) ==
  /\ profile' = [profile EXCEPT ![q] = [there |-> TRUE, marks |-> {}]]
  /\ index' = index \cup {q} /\ wallet' = q
  /\ raced' = IF q \in free /\ Alive # {} THEN raced \cup Alive \cup {q} ELSE raced
FileCreated(q) ==
  /\ edit[q].kind = "create" /\ edit[q].phase = "write" /\ Finishes(q)
  /\ \/ Filed(q) /\ UNCHANGED <<own, setbacks>>
     \/ /\ Setback /\ (Filed(q) \/ UNCHANGED <<profile, index, wallet, raced>>)
        /\ own' = [own EXCEPT ![Site[q]] = [profile |-> [@.profile EXCEPT ![q].there = TRUE], wallet |-> q]]
  /\ UNCHANGED <<free, revived, overlapped>>

----------------------------------------------------------------------------
Created == {p \in Edits : edit[p].kind = "create" /\ edit[p].phase = "done"}
Takes(q, kind, p, found) == Does(q, kind, IF found.there THEN "write" ELSE "done", p, found)
(* update, rateUser, incrementCompletedJobs, updateTotal..., verifyUser,      *)
(* updateLastActive and delete find the profile by its id first.              *)
FindById(q) ==
  /\ edit[q] = NoEdit
  /\ \E p \in Created, kind \in {"amend", "delete"} :
       /\ \/ Takes(q, kind, p, profile[p]) /\ UNCHANGED setbacks
          \/ Takes(q, kind, p, Mine(q).profile[p]) /\ Setback
       /\ overlapped' = IF Using(p) # {} \/ setbacks' > 0 THEN overlapped \cup {p} ELSE overlapped
  /\ UNCHANGED <<profile, index, wallet, own, free, raced, revived>>

\* Variant: an amendment writes what it was given, without what it read.
PersistFresh(q) ==
  LET p == edit[q].id new == [there |-> TRUE, marks |-> {q}] IN
  /\ edit[q].kind = "amend" /\ edit[q].phase = "write" /\ Finishes(q)
  /\ profile' = [profile EXCEPT ![p] = new]
  /\ revived' = IF profile[p].there THEN revived ELSE revived \cup {p}
  /\ UNCHANGED <<own, setbacks, overlapped, index, wallet, free, raced>>
(* persist: the record alone, whether it still exists or not. *)
Persist(q) ==
  LET p == edit[q].id new == [there |-> TRUE, marks |-> edit[q].copy.marks \cup {q}] IN
  /\ edit[q].kind = "amend" /\ edit[q].phase = "write" /\ Finishes(q)
  /\ \/ profile' = [profile EXCEPT ![p] = new] /\ UNCHANGED <<own, setbacks, overlapped>>
     \/ /\ Setback /\ own' = [own EXCEPT ![Site[q]].profile[p] = new]
        /\ overlapped' = overlapped \cup {p} /\ profile' \in {profile, [profile EXCEPT ![p] = new]}
  /\ revived' = IF profile[p].there THEN revived ELSE revived \cup {p}
  /\ UNCHANGED <<index, wallet, free, raced>>

\* Variant: the wallet key stays.
RemoveRecord(p) ==
  profile' = [profile EXCEPT ![p] = Missing] /\ index' = index \ {p} /\ UNCHANGED wallet
\* The record, the index entry and the wallet key, whichever profile that is of.
Remove(p) ==
  profile' = [profile EXCEPT ![p] = Missing] /\ index' = index \ {p} /\ wallet' = NoProfile
Delete(q) ==
  LET p == edit[q].id IN
  /\ edit[q].kind = "delete" /\ edit[q].phase = "write" /\ Finishes(q)
  /\ \/ Remove(p) /\ UNCHANGED <<own, setbacks>>
     \/ /\ Setback /\ (Remove(p) \/ UNCHANGED <<profile, index, wallet>>)
        /\ own' = [own EXCEPT ![Site[q]] = [profile |-> [@.profile EXCEPT ![p] = Missing], wallet |-> NoProfile]]
  /\ raced' = raced \cup ({wallet} \ {p, NoProfile})
  /\ UNCHANGED <<free, revived, overlapped>>

Next == \E q \in Edits : LookForWallet(q) \/ FileCreated(q) \/ FindById(q) \/ Persist(q) \/ Delete(q)
Spec == Init /\ [][Next]_vars

----------------------------------------------------------------------------
TypeOK ==
  /\ profile \in [Edits -> [there : BOOLEAN, marks : SUBSET Edits]] /\ index \subseteq Edits
  /\ wallet \in Edits \cup {NoProfile} /\ DOMAIN own = Sites
  /\ \A q \in Edits : /\ edit[q].kind \in {"none", "create", "amend", "delete"}
                      /\ edit[q].phase \in {"new", "write", "done"}
  /\ setbacks \in 0 .. MaxSetbacks /\ UNION {free, raced, revived, overlapped} \subseteq Edits

(* The wallet key leads to a profile that exists (create, delete). A profile is    *)
(* listed and is the wallet's own, unless it was written back after its deletion,  *)
(* created while another one was, or unlinked by the deletion of another one. It   *)
(* carries every amendment that was confirmed *)
(* unless two were made at once or a call failed (persist).                       *)
ProfilesAgree ==
  /\ wallet # NoProfile => There(wallet)
  /\ \A p \in Edits \ revived : There(p) => p \in index /\ (wallet = p \/ p \in raced \/ setbacks > 0)
  /\ \A q \in Edits : LET p == edit[q].id IN
       edit[q].kind = "amend" /\ edit[q].phase = "done" /\ edit[q].copy.there
         /\ There(p) /\ p \notin overlapped \cup revived => q \in profile[p].marks
=============================================================================
