---------------------------- MODULE ClientWizard ----------------------------
(***************************************************************************)
(* The wizard that creates a client (ClientWizard.tsx): its name, then its *)
(* hierarchy levels, then a review, then the request.  A name is a model   *)
(* value or Blank, the empty text that the form refuses.                   *)
(***************************************************************************)
EXTENDS Naturals, Sequences, SequencesExt

CONSTANTS Names, BlankName,
          DefaultNames, \* DEFAULT_HIERARCHY_LEVEL_NAMES
          MaxLevels,    \* BOUND: levels in the form
          MaxPosts      \* BOUND: requests to create a client

ASSUME WizardAssumption ==
    /\ BlankName \notin Names /\ MaxPosts \in Nat
    /\ DefaultNames \in Seq(Names) /\ Len(DefaultNames) \in 1 .. MaxLevels

VARIABLES
    wizard,  \* its step and its two fields
    created, \* the last request to create a client
    waiting, \* whether the wizard waits for the answer to it
    posts    \* BOUND: requests so far

wizardVars == <<wizard, created, waiting, posts>>

NewWizard == [step |-> 1, name |-> BlankName, levels |-> DefaultNames]

WizardInit ==
    /\ wizard = NewWizard /\ waiting = FALSE /\ posts = 0
    /\ created = [name |-> BlankName, levels |-> <<>>]

Turns(w) == wizard' = w /\ UNCHANGED <<created, waiting, posts>>
LevelsValid(levels) == levels # <<>> /\ BlankName \notin ToSet(levels)

TypeName(name) == wizard.step = 1 /\ Turns([wizard EXCEPT !.name = name])

GoNext_unbounded ==
    /\ wizard.step = 1 => wizard.name # BlankName
    /\ wizard.step = 2 => LevelsValid(wizard.levels)
    /\ Turns([wizard EXCEPT !.step = @ + 1])
\* Next: each step validates its own field.
GoNext ==
    /\ \/ wizard.step = 1 /\ wizard.name # BlankName
       \/ wizard.step = 2 /\ LevelsValid(wizard.levels)
    /\ Turns([wizard EXCEPT !.step = @ + 1])
\* Back works while the request is under way, too.
GoBack == wizard.step > 1 /\ Turns([wizard EXCEPT !.step = @ - 1])

Edits(levels) == wizard.step = 2 /\ Turns([wizard EXCEPT !.levels = levels])
AddLevel == Len(wizard.levels) < MaxLevels /\ Edits(Append(wizard.levels, BlankName))
NameLevel(i, name) == Edits([wizard.levels EXCEPT ![i] = name])
MoveUp(i) ==
    i > 1 /\ Edits([wizard.levels EXCEPT ![i] = wizard.levels[i - 1],
                                         ![i - 1] = wizard.levels[i]])
RemoveLevel(i) == Len(wizard.levels) > 1 /\ Edits(RemoveAt(wizard.levels, i))

\* A level's index is its place in the form at submission.
Numbered(levels) == [i \in DOMAIN levels |-> [levelIndex |-> i - 1, name |-> levels[i]]]

\* handleSubmit validates everything once more; the button is disabled while pending.
Submit ==
    /\ wizard.step = 3 /\ ~waiting /\ posts < MaxPosts
    /\ wizard.name # BlankName /\ LevelsValid(wizard.levels)
    /\ created' = [name |-> wizard.name, levels |-> Numbered(wizard.levels)]
    /\ waiting' = TRUE /\ posts' = posts + 1
    /\ UNCHANGED wizard
\* onSuccess: only a wizard that still listens closes.
ClientCreated ==
    /\ waiting /\ waiting' = FALSE
    /\ wizard' = NewWizard
    /\ UNCHANGED <<created, posts>>
\* The message is shown below the review.
ClientRefused ==
    /\ waiting /\ waiting' = FALSE
    /\ UNCHANGED <<wizard, created, posts>>
\* close(): the form and the mutation are reset.
CloseWizard ==
    /\ wizard' = NewWizard /\ waiting' = FALSE
    /\ UNCHANGED <<created, posts>>

WizardNext ==
    \/ \E name \in Names \cup {BlankName} : TypeName(name)
    \/ GoNext \/ GoBack \/ AddLevel
    \/ \E i \in DOMAIN wizard.levels :
         \/ MoveUp(i) \/ RemoveLevel(i)
         \/ \E name \in Names \cup {BlankName} : NameLevel(i, name)
    \/ Submit \/ ClientCreated \/ ClientRefused \/ CloseWizard

WizardSpec == WizardInit /\ [][WizardNext]_wizardVars

-----------------------------------------------------------------------------
\* Every request names its client and each of its levels, which can never be changed again.
WizardTypeOK ==
    /\ wizard \in [step : 1 .. 3, name : Names \cup {BlankName},
                   levels : Seq(Names \cup {BlankName})]
    /\ created.levels \in Seq([levelIndex : Nat, name : Names])
    /\ created.name \in Names \/ posts = 0
    /\ waiting \in BOOLEAN /\ posts \in 0 .. MaxPosts
=============================================================================
