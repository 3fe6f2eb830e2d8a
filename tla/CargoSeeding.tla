----------------------------- MODULE CargoSeeding -----------------------------
(***************************************************************************)
(* ensureSeedData: the demo shipments that CargoService records before its *)
(* first answer when the repository is empty.  The server calls it as it   *)
(* starts, and so does every read and every recordEvent, its own ones      *)
(* included.  What keeps it to once is a flag of the service, tested       *)
(* before an await and set after it, and the question whether any cargo is *)
(* stored.                                                                 *)
(*                                                                         *)
(* Of recordEvent only the push to the ledger and the saving of the state  *)
(* are kept, which CargoCustody has in full; of an event, the cargo it is  *)
(* about.                                                                  *)
(***************************************************************************)
EXTENDS Naturals, Sequences, SequencesExt, FiniteSets

CONSTANTS
    Cargo,          \* air waybills
    SeedEvents,     \* the cargo of each seed event, in the order of buildSeedEvents
    Starter,        \* the call of server.listen
    Readers,        \* requests that read the control center
    Writers,        \* requests that record an event
    cargoOf,        \* cargoOf[w]: the cargo of the event of a writer
    SeedDemo,       \* config.cargo.seedDemo
    MaxCrashes      \* bound: restarts of the backend

ASSUME SeedingAssumption ==
    /\ SeedEvents \in Seq(Cargo) /\ SeedEvents # <<>>
    /\ Writers \cap Nat = {}
    /\ Starter \notin Readers \cup Writers /\ Readers \cap Writers = {}
    /\ cargoOf \in [Writers -> Cargo]
    /\ SeedDemo \in BOOLEAN /\ MaxCrashes \in Nat

Callers == {Starter} \cup Readers \cup Writers
Seeds == DOMAIN SeedEvents
Entries == Seeds \cup Writers

VARIABLES
    seeded,     \* this.seeded
    pc,         \* pc[k]: where the call k is
    empty,      \* empty[k]: did listCargo find nothing?
    next,       \* next[k]: the seed event the call records now
    ledger,     \* ledger[c]: the entries pushed for c, oldest first
    state,      \* state[c]: the entry the saved state of c comes from, if any
    seen,       \* seen[k]: the cargo a reader was answered with
    crashes,    \* restarts so far
    overlapped, \* observation: did a call start to seed while another did, or
                \* was about to?  was a seeding cut short?
    broken,
    early       \* calls that went past a seeding that was under way

seedVars == <<seeded, empty, next>>
storeVars == <<ledger, state>>
ghostVars == <<overlapped, broken, early>>
seedingVars == <<seedVars, pc, storeVars, seen, crashes, ghostVars>>

Nothing == 0

SeedingInit ==
    /\ seeded = FALSE
    /\ pc = [k \in Callers |-> "new"]
    /\ empty = [k \in Callers |-> FALSE] /\ next = [k \in Callers |-> 1]
    /\ ledger = [c \in Cargo |-> <<>>] /\ state = [c \in Cargo |-> Nothing]
    /\ seen = [k \in Readers |-> {}]
    /\ crashes = 0
    /\ overlapped = FALSE /\ broken = FALSE /\ early = {}

stored == {c \in Cargo : state[c] # Nothing}
seeding(k) == pc[k] \in {"seeding", "saving"}
-----------------------------------------------------------------------------
\* ensureSeedData: the flag is tested, or the repository is asked.
Call(k) ==
    /\ pc[k] = "new"
    /\ pc' = [pc EXCEPT ![k] = IF seeded THEN "ready" ELSE "listing"]
    /\ early' = IF seeded /\ \E other \in Callers : seeding(other) THEN early \cup {k} ELSE early
    /\ UNCHANGED <<seedVars, storeVars, seen, crashes, overlapped, broken>>

\* listCargo(5)
ListCargo(k) ==
    /\ pc[k] = "listing"
    /\ pc' = [pc EXCEPT ![k] = "listed"]
    /\ empty' = [empty EXCEPT ![k] = stored = {}]
    /\ UNCHANGED <<seeded, next, storeVars, seen, crashes, ghostVars>>

\* Mutant of EnsureSeedData: the flag is set when the seeds are recorded.
SeedThenFlag(k) ==
    /\ pc[k] = "listed"
    /\ IF empty[k] /\ SeedDemo
       THEN /\ pc' = [pc EXCEPT ![k] = "seeding"] /\ next' = [next EXCEPT ![k] = 1]
            /\ UNCHANGED <<seeded, overlapped, early>>
       ELSE /\ pc' = [pc EXCEPT ![k] = "ready"] /\ seeded' = TRUE
            /\ UNCHANGED <<next, overlapped, early>>
    /\ UNCHANGED <<empty, storeVars, seen, crashes, broken>>

\* The answer: the flag is set, whoever set it meanwhile, and an empty
\* repository is filled if the configuration says so.
EnsureSeedData(k) ==
    /\ pc[k] = "listed"
    /\ seeded' = TRUE
    /\ IF empty[k] /\ SeedDemo
       THEN /\ pc' = [pc EXCEPT ![k] = "seeding"] /\ next' = [next EXCEPT ![k] = 1]
            /\ overlapped' = (overlapped \/ \E other \in Callers \ {k} :
                                  seeding(other) \/ pc[other] \in {"listing", "listed"})
            /\ UNCHANGED early
       ELSE /\ pc' = [pc EXCEPT ![k] = "ready"]
            /\ early' = IF \E other \in Callers : seeding(other) THEN early \cup {k} ELSE early
            /\ UNCHANGED <<next, overlapped>>
    /\ UNCHANGED <<empty, storeVars, seen, crashes, broken>>

\* recordEvent of a seed event: its push, ...
PushSeed(k) ==
    /\ pc[k] = "seeding"
    /\ pc' = [pc EXCEPT ![k] = "saving"]
    /\ LET c == SeedEvents[next[k]] IN ledger' = [ledger EXCEPT ![c] = Append(@, next[k])]
    /\ UNCHANGED <<seedVars, state, seen, crashes, ghostVars>>

\* Mutant of SaveSeed: the last event is left out.
SaveSeedShort(k) ==
    /\ pc[k] = "saving"
    /\ state' = [state EXCEPT ![SeedEvents[next[k]]] = next[k]]
    /\ IF next[k] + 1 < Len(SeedEvents)
       THEN /\ pc' = [pc EXCEPT ![k] = "seeding"] /\ next' = [next EXCEPT ![k] = @ + 1]
       ELSE /\ pc' = [pc EXCEPT ![k] = "ready"] /\ UNCHANGED next
    /\ UNCHANGED <<seeded, empty, ledger, seen, crashes, ghostVars>>

\* ... and its state, whatever the state of the cargo is by now.
SaveSeed(k) ==
    /\ pc[k] = "saving"
    /\ state' = [state EXCEPT ![SeedEvents[next[k]]] = next[k]]
    /\ IF next[k] < Len(SeedEvents)
       THEN /\ pc' = [pc EXCEPT ![k] = "seeding"] /\ next' = [next EXCEPT ![k] = @ + 1]
       ELSE /\ pc' = [pc EXCEPT ![k] = "ready"] /\ UNCHANGED next
    /\ UNCHANGED <<seeded, empty, ledger, seen, crashes, ghostVars>>

-----------------------------------------------------------------------------
\* getControlCenter, after ensureSeedData
ReadControlCenter(k) ==
    /\ k \in Readers /\ pc[k] = "ready"
    /\ pc' = [pc EXCEPT ![k] = "done"]
    /\ seen' = [seen EXCEPT ![k] = stored]
    /\ UNCHANGED <<seedVars, storeVars, crashes, ghostVars>>

\* recordEvent of a request, after ensureSeedData
PushEvent(k) ==
    /\ k \in Writers /\ pc[k] = "ready"
    /\ pc' = [pc EXCEPT ![k] = "pushed"]
    /\ ledger' = [ledger EXCEPT ![cargoOf[k]] = Append(@, k)]
    /\ UNCHANGED <<seedVars, state, seen, crashes, ghostVars>>

SaveEvent(k) ==
    /\ pc[k] = "pushed"
    /\ pc' = [pc EXCEPT ![k] = "done"]
    /\ state' = [state EXCEPT ![cargoOf[k]] = k]
    /\ UNCHANGED <<seedVars, ledger, seen, crashes, ghostVars>>

\* The backend stops, on a store that rejects a call say, which nobody catches,
\* and starts anew on the stores it had: the flag is lost, the calls under way
\* fail, and server.listen calls again.
Restart ==
    /\ crashes < MaxCrashes
    /\ crashes' = crashes + 1
    /\ seeded' = FALSE
    /\ pc' = [k \in Callers |->
          IF k = Starter THEN "new" ELSE IF pc[k] \in {"new", "done"} THEN pc[k] ELSE "failed"]
    /\ broken' = (broken \/ \E k \in Callers : seeding(k))
    /\ UNCHANGED <<empty, next, storeVars, seen, overlapped, early>>

SeedingNext ==
    \/ \E k \in Callers :
          \/ Call(k) \/ ListCargo(k) \/ EnsureSeedData(k)
          \/ PushSeed(k) \/ SaveSeed(k)
          \/ ReadControlCenter(k) \/ PushEvent(k) \/ SaveEvent(k)
    \/ Restart

SeedingSpec == SeedingInit /\ [][SeedingNext]_seedingVars
-----------------------------------------------------------------------------
times(n) == Cardinality({i \in DOMAIN ledger[SeedEvents[n]] : ledger[SeedEvents[n]][i] = n})

\* A seed event is recorded once, unless two first calls asked the empty
\* repository at the same time, or a seeding was cut short before its first
\* state was saved and was done again by the next start.
ComesOnce(n) == times(n) > 1 => overlapped \/ broken

\* An event that a request recorded is not put aside by a seed event, unless
\* the request passed while the seeds were being recorded, or two first calls
\* overlapped.
Outlives(w) ==
    pc[w] = "done" /\ state[cargoOf[w]] \in Seeds => w \in early \/ overlapped

\* The demo events come once, and before everything else, although the flag
\* is tested before an await and set after it: what races cost is named.
SeedsComeOnceAndFirst == (\A n \in Seeds : ComesOnce(n)) /\ (\A w \in Writers : Outlives(w))

\* A reader is answered with every demo shipment, unless it passed while they
\* were being recorded, or a seeding was cut short or doubled.
ReaderSeesSeeds ==
    \A k \in Readers :
        SeedDemo /\ pc[k] = "done" => Range(SeedEvents) \subseteq seen[k] \/ k \in early \/ broken
=============================================================================
