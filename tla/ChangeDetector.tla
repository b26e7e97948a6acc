--------------------------- MODULE ChangeDetector ----------------------------
(***************************************************************************)
(* domheal.DOMChangeDetector (pkg/domheal/dom_change_detector.go) over the *)
(* drift detector (drift_detector.go) and the baselines of the matchers.   *)
(*                                                                         *)
(* Check asks the breaker, then compares a page with three baselines and   *)
(* replaces each, the first two under a lock of their own and the third    *)
(* under none, and then decides: the steps of concurrent checks of one     *)
(* page interleave.  A read of the unlocked map while another check writes *)
(* it may miss the entry, and two writes at once end the process, which is *)
(* one of the deaths before a restart.  A page's content is a model value; *)
(* how alike two contents are is given, in percent.  Save writes the       *)
(* hashes and then the events; a restart loads both and begins without     *)
(* baselines of the matchers and with a fresh breaker.                     *)
(***************************************************************************)
EXTENDS Integers, Sequences, FiniteSets, DomBreaker

CONSTANTS Checkers, Pages,
          Contents, Unknown,   \* contents of pages; no content known
          FingerprintSim, StructuralSim,  \* of two contents, as a set
          MaxChecks, MaxSaves, MaxRestarts  \* bounds

ChangesAssumption == {MaxChecks, MaxSaves, MaxRestarts} \subseteq Nat

VARIABLES breaker,
          hashes,       \* drift.hashes, a content standing for its hash
          fingerprints, \* baselines of the FingerprintMatcher
          structures,   \* baselines of the StructuralMatcher
          check,        \* the call of each checker
          events,       \* ChangeEvents, a page and a severity each
          saving,       \* is a Save between its two files?
          hashFile, eventFile,
          checks, saves, restarts,
          base,         \* ghost: the content of each page checked last, since the start
          overlapped,   \* ghost: pages two checks of which overlapped, or one of which raced
          missed        \* ghost: did an undisturbed check miss a change?

vars == <<breaker, hashes, fingerprints, structures, check, events, saving, hashFile, eventFile,
          checks, saves, restarts, base, overlapped, missed>>

NoCheck  == [at |-> "idle", page |-> CHOOSE p \in Pages : TRUE, html |-> Unknown,
             drifted |-> FALSE, new |-> FALSE, fp |-> 100, st |-> 100]
Blank    == [p \in Pages |-> Unknown]
Severity == {"minor", "moderate", "major"}
Checking(p) == {c \in Checkers : check[c].at # "idle" /\ check[c].page = p}

TypeOK ==
    /\ breaker \in DomBreakerState
    /\ {hashes, fingerprints, structures, hashFile, base}
          \subseteq [Pages -> Contents \cup {Unknown}]
    /\ \A c \in Checkers : check[c].at \in {"idle", "hash", "fingerprint", "structure", "store", "decide",
                                            "repair"}
    /\ \A s \in {events, eventFile} : \A n \in DOMAIN s : s[n] \in [page : Pages, severity : Severity]
    /\ checks \in 0..MaxChecks /\ saves \in 0..MaxSaves /\ restarts \in 0..MaxRestarts
    /\ overlapped \subseteq Pages /\ {saving, missed} \subseteq BOOLEAN

Init ==
    /\ breaker = NewDomBreaker
    /\ hashes = Blank /\ fingerprints = Blank /\ structures = Blank /\ base = Blank
    /\ check = [c \in Checkers |-> NoCheck]
    /\ events = <<>> /\ saving = FALSE /\ hashFile = Blank /\ eventFile = <<>>
    /\ checks = 0 /\ saves = 0 /\ restarts = 0
    /\ overlapped = {} /\ missed = FALSE

Alike(sim, old, new) == IF old = new THEN 100 ELSE sim[{old, new}]

classifySeverity(fp, st) ==
    IF fp + st >= 180 THEN "minor" ELSE IF fp + st >= 140 THEN "moderate" ELSE "major"

\* A change nobody hears of: minor, and hardly any by the fingerprint.
Negligible(fp, st) == classifySeverity(fp, st) = "minor" /\ fp > 90

Begin(c, p, h) ==
    /\ check[c].at = "idle" /\ checks < MaxChecks
    /\ checks' = checks + 1
    /\ breaker' = DomAllow(breaker)
    /\ check' = IF DomAdmits(breaker)
                THEN [check EXCEPT ![c] = [NoCheck EXCEPT !.at = "hash", !.page = p, !.html = h]]
                ELSE check
    /\ overlapped' = IF Checking(p) # {} THEN overlapped \cup {p} ELSE overlapped
    /\ UNCHANGED <<hashes, fingerprints, structures, events, saving, hashFile, eventFile, saves,
                   restarts, base, missed>>

\* DriftDetector.CheckAndUpdate; a page seen first has not drifted.
CheckHash(c) ==
    LET d == check[c] IN
    /\ d.at = "hash"
    /\ check' = [check EXCEPT ![c].at = "fingerprint",
                              ![c].drifted = hashes[d.page] \notin {Unknown, d.html}]
    /\ hashes' = [hashes EXCEPT ![d.page] = d.html]
    /\ UNCHANGED <<breaker, fingerprints, structures, events, saving, hashFile, eventFile, checks,
                   saves, restarts, base, overlapped, missed>>

\* mutant: the fingerprint is taken only of a page that has drifted.
CheckFingerprintLazy(c) ==
    LET d == check[c] IN
    /\ d.at = "fingerprint"
    /\ check' = [check EXCEPT ![c].at = "structure",
                              ![c].new = fingerprints[d.page] = Unknown]
    /\ fingerprints' = IF d.drifted THEN [fingerprints EXCEPT ![d.page] = d.html] ELSE fingerprints
    /\ UNCHANGED <<breaker, hashes, structures, events, saving, hashFile, eventFile, checks, saves,
                   restarts, base, overlapped, missed>>

\* Both baselines are replaced whether the hash drifted or not.
CheckFingerprint(c) ==
    LET d == check[c]
        old == fingerprints[d.page] IN
    /\ d.at = "fingerprint"
    /\ check' = [check EXCEPT ![c].at = "structure", ![c].new = old = Unknown,
                    ![c].fp = IF old = Unknown THEN 100 ELSE Alike(FingerprintSim, old, d.html)]
    /\ fingerprints' = [fingerprints EXCEPT ![d.page] = d.html]
    /\ UNCHANGED <<breaker, hashes, structures, events, saving, hashFile, eventFile, checks, saves,
                   restarts, base, overlapped, missed>>

\* Is another check in the map of the StructuralMatcher, which has no lock?
Racing(c) == \E o \in Checkers \ {c} : check[o].at \in {"structure", "store"}

\* StructuralMatcher.CheckAndUpdate reads the baseline,
ReadStructure(c) ==
    LET d == check[c] IN
    /\ d.at = "structure"
    /\ \E old \in {structures[d.page]} \cup (IF Racing(c) THEN {Unknown} ELSE {}) :
          check' = [check EXCEPT ![c].at = "store", ![c].new = @ \/ old = Unknown,
                       ![c].st = IF old = Unknown THEN 100 ELSE Alike(StructuralSim, old, d.html)]
    /\ overlapped' = IF Racing(c) THEN overlapped \cup {d.page} ELSE overlapped
    /\ UNCHANGED <<breaker, hashes, fingerprints, structures, events, saving, hashFile, eventFile,
                   checks, saves, restarts, base, missed>>

\* and replaced.
CheckStructure(c) ==
    LET d == check[c] IN
    /\ d.at = "store"
    /\ check' = [check EXCEPT ![c].at = "decide"]
    /\ structures' = [structures EXCEPT ![d.page] = d.html]
    /\ UNCHANGED <<breaker, hashes, fingerprints, events, saving, hashFile, eventFile, checks, saves,
                   restarts, base, overlapped, missed>>

\* What the page was last, by an observer who sees one check after the other.
Observe(c, reported) ==
    LET d == check[c]
        old == base[d.page] IN
    /\ base' = [base EXCEPT ![d.page] = d.html]
    /\ missed' = (missed \/ (/\ ~reported /\ d.page \notin overlapped /\ old # Unknown
                             /\ ~Negligible(Alike(FingerprintSim, old, d.html),
                                            Alike(StructuralSim, old, d.html))))

\* No drift, a baseline established, or a negligible change: nil.
NoChange(c) ==
    LET d == check[c] IN
    /\ d.at = "decide"
    /\ ~d.drifted \/ d.new \/ Negligible(d.fp, d.st)
    /\ breaker' = DomSuccess(breaker)
    /\ check' = [check EXCEPT ![c] = NoCheck]
    /\ Observe(c, FALSE)
    /\ UNCHANGED <<hashes, fingerprints, structures, events, saving, hashFile, eventFile, checks,
                   saves, restarts, overlapped>>

\* The event is kept; a change that is not minor goes on to the repair.
Change(c) ==
    LET d == check[c]
        s == classifySeverity(d.fp, d.st) IN
    /\ d.at = "decide" /\ d.drifted /\ ~d.new /\ ~Negligible(d.fp, d.st)
    /\ events' = Append(events, [page |-> d.page, severity |-> s])
    /\ IF s = "minor"
       THEN breaker' = DomSuccess(breaker) /\ check' = [check EXCEPT ![c] = NoCheck]
       ELSE check' = [check EXCEPT ![c].at = "repair"] /\ UNCHANGED breaker
    /\ Observe(c, TRUE)
    /\ UNCHANGED <<hashes, fingerprints, structures, saving, hashFile, eventFile, checks, saves,
                   restarts, overlapped>>

\* The callback, whose failures the breaker counts.
Repair(c) ==
    /\ check[c].at = "repair"
    /\ breaker' \in {DomSuccess(breaker), DomFailure(breaker)}
    /\ check' = [check EXCEPT ![c] = NoCheck]
    /\ UNCHANGED <<hashes, fingerprints, structures, events, saving, hashFile, eventFile, checks,
                   saves, restarts, base, overlapped, missed>>

CooldownPasses ==
    /\ ~breaker.cooled
    /\ breaker' = DomCooldown(breaker)
    /\ UNCHANGED <<hashes, fingerprints, structures, check, events, saving, hashFile, eventFile,
                   checks, saves, restarts, base, overlapped, missed>>

SaveHashes ==
    /\ ~saving /\ saves < MaxSaves
    /\ saves' = saves + 1 /\ saving' = TRUE
    /\ hashFile' = hashes
    /\ UNCHANGED <<breaker, hashes, fingerprints, structures, check, events, eventFile, checks,
                   restarts, base, overlapped, missed>>

SaveEvents ==
    /\ saving
    /\ saving' = FALSE
    /\ eventFile' = events
    /\ UNCHANGED <<breaker, hashes, fingerprints, structures, check, events, hashFile, checks, saves,
                   restarts, base, overlapped, missed>>

\* A new process calls Load.
Restart ==
    /\ restarts < MaxRestarts
    /\ restarts' = restarts + 1
    /\ hashes' = hashFile /\ events' = eventFile
    /\ fingerprints' = Blank /\ structures' = Blank /\ base' = Blank
    /\ breaker' = NewDomBreaker /\ check' = [c \in Checkers |-> NoCheck] /\ saving' = FALSE
    /\ UNCHANGED <<hashFile, eventFile, checks, saves, overlapped, missed>>

Next ==
    \/ \E c \in Checkers :
          \/ \E p \in Pages, h \in Contents : Begin(c, p, h)
          \/ CheckHash(c) \/ CheckFingerprint(c) \/ ReadStructure(c) \/ CheckStructure(c)
          \/ NoChange(c) \/ Change(c) \/ Repair(c)
    \/ CooldownPasses \/ SaveHashes \/ SaveEvents \/ Restart

Progress == SaveEvents \/ \E c \in Checkers :
    \/ CheckHash(c) \/ CheckFingerprint(c) \/ ReadStructure(c) \/ CheckStructure(c)
    \/ NoChange(c) \/ Change(c) \/ Repair(c)

-----------------------------------------------------------------------------
(* Properties *)

\* As long as no two checks of a page overlap, nor any two in the unlocked map,
\* its three baselines are of the same content, and of a page that was not checked since a restart the
\* matchers have none: concurrent checks are what can mix them.
BaselinesAgree ==
    \A p \in Pages \ overlapped : Checking(p) = {} =>
        /\ fingerprints[p] = structures[p]
        /\ fingerprints[p] # Unknown => fingerprints[p] = hashes[p]

\* A check that no other overlaps reports every change that matters against the
\* content checked before it in this process, after any number of refused
\* checks and failed repairs.
NoChangeMissed == ~missed

Returned == \A c \in Checkers : check[c].at = "idle"

=============================================================================
