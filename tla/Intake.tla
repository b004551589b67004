------------------------------- MODULE Intake -------------------------------
\* Devices get into ISE by the register view, its queue, and by CSV import.
EXTENDS Register, CsvImport

vars == <<queueVars, registerVars, csvVars>>

Init == QueueInit /\ RegisterInit /\ CsvInit

\* The import view is another page of the portal.
ChooseFile == /\ page = "away"
              /\ ImportTemplate \/ ExportCsv \/ PasteFile
              /\ clicks + regs < MaxActs /\ clicks' = clicks + 1
              /\ UNCHANGED <<page, shell, formVars>>
Importing == /\ page = "away"
             /\ ResetTemplate \/ Preview \/ (\E overwrite \in BOOLEAN : Import(overwrite))
             /\ UNCHANGED registerVars

Next == \/ RegisterNext /\ UNCHANGED csvVars
        \/ ChooseFile \/ Importing
        \/ (ServeBulk \/ BulkAnswered) /\ UNCHANGED registerVars

Spec == Init /\ [][Next]_vars

\* Requests are answered or fail, a connection that is lost comes back, and
\* the user comes back to the register view again and again, waits for its
\* lists and uses the banner's button.
Fairness ==
    /\ WF_vars((\E c \in calls : Serve(c)) /\ UNCHANGED <<registerVars, csvVars>>)
    /\ WF_vars(FlushAnswered /\ UNCHANGED <<registerVars, csvVars>>)
    /\ WF_vars((Beneath /\ ~online /\ online') /\ UNCHANGED csvVars)
    /\ WF_vars((ReconnectDead \/ LoadAgain \/ Open \/ (page = "open" /\ Leave)) /\ UNCHANGED csvVars)
    /\ SF_vars(ListsLoaded /\ UNCHANGED csvVars)
    /\ SF_vars(FlushClicked /\ UNCHANGED <<registerVars, csvVars>>)

FairSpec == Spec /\ Fairness

----------------------------------------------------------------------------
\* Types.
TypeOK ==
    /\ online \in BOOLEAN /\ faults \in 0..MaxFaults
    /\ regs \in 0..MaxRegs /\ macOf \in [Regs -> Macs]
    /\ queue \subseteq Regs
    /\ todo \in [Flushers -> SUBSET Regs] /\ sent \in [Flushers -> 0..MaxRegs]
    /\ origin \in [Flushers -> Origins]
    /\ calls \subseteq Call
    /\ ise \in [Macs -> [group : Groups \union {NoGroup}, desc : Seq(Word), static : BOOLEAN]
                        \union {Absent}]
    /\ made \subseteq Regs /\ refused \subseteq Regs
    /\ ready \in BOOLEAN /\ banner \in 0..MaxRegs
    /\ page \in {"away", "loading", "open", "dead"} /\ (ready <=> page = "open")
    /\ templates \subseteq Templates
    /\ form \in [mac : Macs \union {None}, platform : Macs \union {None},
                 tpl : Templates \union {""}, key : BOOLEAN]
    /\ hint \in Macs \union {None} /\ typing \in BOOLEAN /\ asks \subseteq Ask
    /\ mine \in {"hidden", "loaded", "loading", "shown", "failed"}
    /\ camera \in {"off", "asked", "scanning", "cancelled", "left on"}
    /\ shell \in {"part", "all"} /\ clicks \in 0..MaxActs
    /\ template \in Seq(Word) /\ file.text \in Seq(Word)
    /\ bulk.st \in {"none", "out", "answered"}

\* What the queue has accepted is kept until ISE holds it or an answer refuses
\* it: flushes that overlap, registrations queued meanwhile, reloads and lost
\* answers lose nothing (the abstract ledger, implemented).
Ledger == INSTANCE RegistrationLedger
              WITH Registrations <- Regs, pending <- queue \ made,
                   registered <- made, refused <- refused \ made
LedgerKept == Ledger!Spec

\* A queued registration does not stay queued for ever: whatever the banner
\* fails to show, a user who comes back finds its button again.
Settles == \A r \in Regs : (r \in queue) ~> (r \notin queue)

\* The endpoints an export describes come back the same: a description that is
\* neither quoted in apostrophes nor over several lines, and a group.
Plain(d) == stripQuotes(trim(d)) = d /\ \A i \in DOMAIN d : d[i] # LF
Exportable(e) == e # Absent /\ e.group # NoGroup /\ Plain(e.desc)

\* An import of the portal's own export, over endpoints that have not changed
\* since, changes no field: quoting, doubled quotes, columns in another order
\* and columns the portal does not fill included.
RoundTrip ==
    [][bulk.st = "out" /\ bulk'.st = "answered" /\
       (\A i \in DOMAIN bulk.items : bulk.items[i].group # NoGroup)
       => \A m \in Macs : /\ ise[m] = bulk.of[m] /\ Exportable(ise[m])
                          /\ (\A n \in Macs : bulk.of[n] # Absent => Exportable(bulk.of[n]))
                          => ise'[m] = ise[m]]_vars
=============================================================================
