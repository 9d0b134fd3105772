------------------------------ MODULE CardShelf ------------------------------
(***************************************************************************)
(* What becomes of the cards that `potsherd card` writes: their rows and   *)
(* their markdown files under growing transcripts, index passes, failing   *)
(* model calls, kills and forgets.  A command plans which sessions to card *)
(* (cards/plan.ts), newest first and at most Limit of them, and then       *)
(* loads, cards and stores one after the other (cards/run.ts, write.ts);   *)
(* CardRun has its workers and calls.  Commands take no lease.  Cards are  *)
(* kept by session id, without a foreign key.                              *)
(*                                                                         *)
(* The text of a session is the number of its edits.  Publication and      *)
(* forgetting are one step each here; EvidenceStore has theirs.            *)
(***************************************************************************)
EXTENDS Integers, Sequences, FiniteSets, FiniteSetsExt

CONSTANTS
  Shelved,    \* session ids are numbers
  Ghostly,    \* those of which only history.jsonl remembers something
  MaxNow,     \* ticks of the clock
  MaxEdits,   \* edits of each transcript
  Limit,      \* --limit
  Cmds        \* commands

ASSUME ShelfAssumption ==
  /\ Shelved \subseteq Nat \ {0} /\ IsFiniteSet(Shelved) /\ Ghostly \subseteq Shelved
  /\ MaxNow \in Nat \ {0} /\ MaxEdits \in Nat \ {0} /\ Limit \in Nat \ {0}

VARIABLES
  now,
  text, mtime,  \* the transcripts: edits, and when the last one was made
  seen,         \* what a pass found of each when it listed the files
  indexed,      \* what is indexed of each: text and source_mtime
  card,         \* its card: the text it was made from and created_at
  mirror,       \* and the file of that card
  tombs,        \* sessions with a tombstone
  owed,         \* card files that a pending tombstone has still to remove
  run,          \* the commands
  inHand        \* forgotten sessions that a command had loaded, or failed to card

shelfVars == <<now, text, mtime, seen, indexed, card, mirror, tombs, owed, run, inHand>>

None   == [of |-> 0, at |-> 0]
Idle   == [pc |-> "idle", todo |-> <<>>, ver |-> 0]
Record == [of : 0 .. MaxEdits, at : 0 .. MaxNow]

ShelfTypeOK ==
  /\ now \in 0 .. MaxNow
  /\ text \in [Shelved -> 0 .. MaxEdits] /\ mtime \in [Shelved -> 0 .. MaxNow]
  /\ seen \in [Shelved -> Record] /\ indexed \in [Shelved -> Record] /\ card \in [Shelved -> Record]
  /\ mirror \in [Shelved -> {"none", "card", "error"}]
  /\ tombs \subseteq Shelved /\ owed \subseteq tombs /\ inHand \subseteq tombs
  /\ run \in [Cmds -> [pc : {"idle", "next", "calls", "mirror"}, todo : Seq(Shelved),
                       ver : 0 .. MaxEdits]]

Held == [of |-> 1, at |-> 0]

(* A ghost has prompts and no source_mtime.                                *)
ShelfInit ==
  /\ now = 1
  /\ text = [s \in Shelved |-> IF s \in Ghostly THEN 1 ELSE 0] /\ mtime = [s \in Shelved |-> 0]
  /\ seen = [s \in Shelved |-> None]
  /\ indexed = [s \in Shelved |-> IF s \in Ghostly THEN Held ELSE None]
  /\ card = [s \in Shelved |-> None] /\ mirror = [s \in Shelved |-> "none"]
  /\ tombs = {} /\ owed = {} /\ run = [p \in Cmds |-> Idle] /\ inHand = {}

-----------------------------------------------------------------------------
(* The world.                                                              *)
Tick ==
  /\ now < MaxNow /\ now' = now + 1
  /\ UNCHANGED <<text, mtime, seen, indexed, card, mirror, tombs, owed, run, inHand>>

EditTranscript(s) ==
  /\ s \notin Ghostly /\ text[s] < MaxEdits
  /\ text' = [text EXCEPT ![s] = @ + 1] /\ mtime' = [mtime EXCEPT ![s] = now]
  /\ UNCHANGED <<now, seen, indexed, card, mirror, tombs, owed, run, inHand>>

(* A pass, of which there is one at a time, stats the files that it lists. *)
ListTranscript(s) ==
  /\ s \notin Ghostly /\ text[s] > 0
  /\ seen' = [seen EXCEPT ![s] = [of |-> text[s], at |-> mtime[s]]]
  /\ UNCHANGED <<now, text, mtime, indexed, card, mirror, tombs, owed, run, inHand>>

(* A variant that stats a file after it has read it.                       *)
IndexStatsLate(s) ==
  /\ seen[s] # None /\ s \notin tombs /\ seen' = [seen EXCEPT ![s] = None]
  /\ \E t \in seen[s].of .. text[s] :
       indexed' = [indexed EXCEPT ![s] = [of |-> t, at |-> mtime[s]]]
  /\ UNCHANGED <<now, text, mtime, card, mirror, tombs, owed, run, inHand>>

(* It reads each later, so what it publishes may be newer than the mtime   *)
(* it publishes with it.  Under --full, or with another version of the     *)
(* adapter, the text may be the one that is indexed already.               *)
IndexTranscript(s) ==
  /\ seen[s] # None /\ s \notin tombs /\ seen' = [seen EXCEPT ![s] = None]
  /\ \E t \in seen[s].of .. text[s] :
       indexed' = [indexed EXCEPT ![s] = [of |-> t, at |-> seen[s].at]]
  /\ UNCHANGED <<now, text, mtime, card, mirror, tombs, owed, run, inHand>>

-----------------------------------------------------------------------------
(* The plan.                                                               *)

(* A variant that does not compare strictly.                               *)
StaleOrEven(s) == s \notin Ghostly /\ indexed[s].at >= card[s].at

(* isStale(): the transcript was written after the card.                   *)
Stale(s) == s \notin Ghostly /\ indexed[s].at > card[s].at

Eligible == {s \in Shelved : indexed[s] # None /\ (card[s] # None => Stale(s))}

(* Newest first, then by id; ghosts are old.                               *)
Before(s, t) == indexed[s].at > indexed[t].at \/ (indexed[s].at = indexed[t].at /\ s < t)
Sorted(S)    == [i \in 1 .. Cardinality(S) |->
                   CHOOSE s \in S : Cardinality({t \in S : Before(t, s)}) = i - 1]

PlanCards(p) ==
  /\ run[p].pc = "idle" /\ Eligible # {}
  /\ run' = [run EXCEPT ![p] =
       [pc |-> "next", ver |-> 0,
        todo |-> SubSeq(Sorted(Eligible), 1, Min({Limit, Cardinality(Eligible)}))]]
  /\ UNCHANGED <<now, text, mtime, seen, indexed, card, mirror, tombs, owed, inHand>>

-----------------------------------------------------------------------------
(* The run.                                                                *)
Current(p) == Head(run[p].todo)
Done(p)    == IF Len(run[p].todo) = 1 THEN Idle
              ELSE [pc |-> "next", todo |-> Tail(run[p].todo), ver |-> 0]
Loaded     == {Current(p) : p \in {q \in Cmds : run[q].pc \in {"calls", "mirror"}}}

(* A variant that treats a session without rows as one that failed.        *)
LoadOrMark(p) ==
  /\ run[p].pc = "next"
  /\ \/ indexed[Current(p)] = None /\ run' = [run EXCEPT ![p] = Done(p)]
        /\ mirror' = [mirror EXCEPT ![Current(p)] = "error"]
     \/ indexed[Current(p)] # None /\ UNCHANGED mirror
        /\ run' = [run EXCEPT ![p].pc = "calls", ![p].ver = indexed[Current(p)].of]
  /\ UNCHANGED <<now, text, mtime, seen, indexed, card, tombs, owed, inHand>>

(* A session without rows is counted as failed and passed over.            *)
LoadTranscript(p) ==
  /\ run[p].pc = "next"
  /\ \/ indexed[Current(p)] = None /\ run' = [run EXCEPT ![p] = Done(p)]
     \/ indexed[Current(p)] # None
        /\ run' = [run EXCEPT ![p].pc = "calls", ![p].ver = indexed[Current(p)].of]
  /\ UNCHANGED <<now, text, mtime, seen, indexed, card, mirror, tombs, owed, inHand>>

(* Reading the session, a call or writing the file fails; writeSentinel()  *)
(* may fail too.                                                           *)
CardFails(p) ==
  /\ run[p].pc # "idle" /\ run' = [run EXCEPT ![p] = Done(p)]
  /\ mirror' \in {mirror, [mirror EXCEPT ![Current(p)] = "error"]}
  /\ inHand' = inHand \cup ({Current(p)} \cap tombs)
  /\ UNCHANGED <<now, text, mtime, seen, indexed, card, tombs, owed>>

(* writeCard(): the transaction over cards, cards_fts and vec_cards, ...   *)
SaveRows(p) ==
  /\ run[p].pc = "calls" /\ run' = [run EXCEPT ![p].pc = "mirror"]
  /\ card' = [card EXCEPT ![Current(p)] = [of |-> run[p].ver, at |-> now]]
  /\ UNCHANGED <<now, text, mtime, seen, indexed, mirror, tombs, owed, inHand>>

(* ... and the file.                                                       *)
SaveMirror(p) ==
  /\ run[p].pc = "mirror" /\ run' = [run EXCEPT ![p] = Done(p)]
  /\ mirror' = [mirror EXCEPT ![Current(p)] = "card"]
  /\ UNCHANGED <<now, text, mtime, seen, indexed, card, tombs, owed, inHand>>

(* Killed, or ended by its ceiling.                                        *)
EndEarly(p) ==
  /\ run[p].pc # "idle" /\ run' = [run EXCEPT ![p] = Idle]
  /\ UNCHANGED <<now, text, mtime, seen, indexed, card, mirror, tombs, owed, inHand>>

-----------------------------------------------------------------------------
(* applyForget().  The card goes, and its file is listed, with the row of  *)
(* `sessions`, which a ghost has not.                                      *)
ForgetCarded(s) ==
  /\ indexed[s] # None /\ tombs' = tombs \cup {s}
  /\ indexed' = [indexed EXCEPT ![s] = None]
  /\ card' = IF s \in Ghostly THEN card ELSE [card EXCEPT ![s] = None]
  /\ owed' = owed \cup ({s} \ Ghostly)
  /\ inHand' = inHand \cup (Loaded \cap {s})
  /\ UNCHANGED <<now, text, mtime, seen, mirror, run>>

(* finishArchive(), at once or in recoverForget() after a crash.           *)
UnlinkCard(s) ==
  /\ s \in owed /\ owed' = owed \ {s}
  /\ mirror' = [mirror EXCEPT ![s] = "none"]
  /\ UNCHANGED <<now, text, mtime, seen, indexed, card, tombs, run, inHand>>

Carding(p) == PlanCards(p) \/ LoadTranscript(p) \/ SaveRows(p) \/ SaveMirror(p) \/ CardFails(p)

ShelfNext ==
  \/ Tick
  \/ \E s \in Shelved : \/ EditTranscript(s) \/ ListTranscript(s) \/ IndexTranscript(s)
                        \/ ForgetCarded(s) \/ UnlinkCard(s)
  \/ \E p \in Cmds : Carding(p) \/ EndEarly(p)

-----------------------------------------------------------------------------
(* A command plans calls only for sessions of which something was indexed  *)
(* that their card has not seen, however commands, edits and index passes  *)
(* have overlapped and whichever mtime was stored with a text.  It may     *)
(* miss some: a card saved over what was indexed meanwhile, or over a text *)
(* stored with an older mtime, counts as fresh (isStale, plan.ts).         *)
PlansOnlyChanges ==
  [][\A p \in Cmds : run[p].pc = "idle" /\ run'[p].pc # "idle" =>
       \A i \in DOMAIN run'[p].todo :
         LET s == run'[p].todo[i] IN card[s] # None => card[s].of < indexed[s].of]_shelfVars

(* Once its forget is complete, a session with a transcript that no        *)
(* command had loaded at the time, or failed to card since, has neither a  *)
(* card nor a file, not even one that says that carding failed.  A ghost,  *)
(* and a session in hand, may keep them (delete.ts, write.ts).             *)
QuietForgetIsComplete ==
  \A s \in tombs \ (inHand \cup owed \cup Ghostly) : card[s] = None /\ mirror[s] = "none"

(* No calls for what has a card of all that is indexed, and nothing left   *)
(* of a transcript that was forgotten out of everybody's hands.            *)
CardsFollowSessions == PlansOnlyChanges /\ []QuietForgetIsComplete

=============================================================================
