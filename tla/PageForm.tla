------------------------------ MODULE PageForm ------------------------------
(***************************************************************************)
(* The form of a record's page (common.js): the input and its generator of *)
(* codes, the PUT requests and what their answers show.                     *)
(***************************************************************************)
EXTENDS Page

CONSTANTS
    Values,     \* what the input can hold
    FirstValue, \* what it holds when the page comes
    Inputs,     \* the inputs that can be marked as invalid
    RandomStrings, \* what generate_random_string can return
    Generators  \* the options of the generators of the page

ASSUME FormAssumption ==
    /\ FirstValue \in Values /\ RandomStrings \subseteq Values
    /\ Generators \subseteq [url : BOOLEAN, length : BOOLEAN, uuid : BOOLEAN]

VARIABLES
    value,     \* the value of the input
    stored,    \* what the server has
    puts,      \* the PUT requests of form_on_page_submit (history)
    success,   \* the alert that the data were changed is shown
    danger,    \* the alert with an error is shown
    marks,     \* the inputs that are marked as invalid
    codes      \* how many codes are on their way

alertVars == <<success, danger, marks>>
formVars == <<value, stored, puts, alertVars, codes>>

FormInit ==
    /\ value = FirstValue /\ stored = FirstValue
    /\ puts = <<>>
    /\ success = FALSE /\ danger = FALSE /\ marks = {}
    /\ codes = 0

-----------------------------------------------------------------------------
(* The form *)

Type(v) ==
    /\ Here /\ v # value
    /\ value' = v
    /\ UNCHANGED <<pageVars, stored, puts, alertVars, codes>>

\* A request that neither the server nor the page has done with
Open(i) == puts[i].server = "sent" \/ puts[i].waiting

\* All inputs are sent, the disabled ones too: they are enabled meanwhile. The
\* loader is not found (its selector is misspelled), so nothing tells the user
\* to wait.
FormSubmit ==
    /\ Click
    /\ puts' = puts \o [k \in 1 .. Runs(bound) |->
                  [value |-> value, server |-> "sent", waiting |-> TRUE,
                   alone |-> \A i \in DOMAIN puts : ~Open(i)]] \* history
    /\ UNCHANGED <<scripts, bound, left, value, stored, alertVars, codes>>

\* The server takes the requests in any order, those as well that the page
\* waits for no longer.
PutServe(i) ==
    /\ Here /\ i \in DOMAIN puts /\ puts[i].server = "sent"
    /\ \/ puts' = [puts EXCEPT ![i].server = "done"] /\ stored' = puts[i].value
       \/ puts' = [puts EXCEPT ![i].server = "refused"] /\ UNCHANGED stored
    /\ UNCHANGED <<pageVars, value, alertVars, codes>>

Received(i) ==
    /\ Here /\ i \in DOMAIN puts /\ puts[i].waiting
    /\ puts' = [puts EXCEPT ![i].waiting = FALSE]
    /\ UNCHANGED <<pageVars, value, stored, codes>>

\* Variant with a fault: the alert of an earlier error stays
PutSavedDangerStays(i) ==
    /\ Received(i) /\ puts[i].server = "done"
    /\ success' = TRUE
    /\ UNCHANGED <<danger, marks>>

\* The marks of an earlier error stay.
PutSaved(i) ==
    /\ Received(i) /\ puts[i].server = "done"
    /\ success' = TRUE /\ danger' = FALSE
    /\ UNCHANGED marks

PutRefused(i) ==
    /\ Received(i) /\ puts[i].server = "refused"
    /\ success' = FALSE /\ danger' = TRUE
    /\ marks' \in SUBSET Inputs

\* An error without JSON, before or after the server is done: a proxy gives up.
PutLost(i) ==
    /\ Received(i)
    /\ success' = FALSE
    /\ UNCHANGED <<danger, marks>>

-----------------------------------------------------------------------------
(* The generator of codes *)

\* add_code_generate_input_addons puts a button only where there is something
\* to generate from.
HasButton(g) == g.url \/ g.length \/ g.uuid

\* code_generate: a random string of the length (modelled by some value) comes
\* first; $.uuid does not exist and throws; a code of the server comes later.
CodeGenerate(g) ==
    /\ Click /\ g \in Generators /\ HasButton(g)
    /\ IF g.length THEN value' \in RandomStrings /\ UNCHANGED codes
       ELSE IF g.uuid THEN UNCHANGED <<value, codes>>
       ELSE codes' = codes + Runs(bound) /\ UNCHANGED value
    /\ UNCHANGED <<scripts, bound, left, stored, puts, alertVars>>

\* The code replaces whatever the input holds by then. An answer without a code
\* or an error does nothing.
CodeArrives(v) ==
    /\ Here /\ codes > 0
    /\ codes' = codes - 1
    /\ value' = v
    /\ UNCHANGED <<pageVars, stored, puts, alertVars>>
FormUse ==
    \/ \E v \in Values : Type(v)
    \/ FormSubmit
    \/ \E g \in Generators : CodeGenerate(g)

FormAnswer ==
    \/ \E i \in DOMAIN puts : PutServe(i) \/ PutSaved(i) \/ PutRefused(i) \/ PutLost(i)
    \/ \E v \in Values : CodeArrives(v)

-----------------------------------------------------------------------------
(* Properties *)

FormTypeOK ==
    /\ value \in Values /\ stored \in Values
    /\ \A i \in DOMAIN puts :
          puts[i].value \in Values /\ puts[i].server \in {"sent", "done", "refused"}
    /\ success \in BOOLEAN /\ danger \in BOOLEAN /\ marks \subseteq Inputs
    /\ codes \in Nat

\* The user can save again before the answer, and the server may then take the
\* older data last. But when a save was the only one under way and nothing is
\* open any more, the page tells the truth: success says that the server has
\* what was sent, danger that it has refused it, and never both.
FormTellsTheTruth ==
    puts # <<>> /\ (\A i \in DOMAIN puts : ~Open(i)) /\ puts[Len(puts)].alone =>
        /\ success => puts[Len(puts)].server = "done" /\ stored = puts[Len(puts)].value /\ ~danger
        /\ puts[Len(puts)].server = "refused" => ~success
=============================================================================
