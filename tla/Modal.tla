------------------------------- MODULE Modal -------------------------------
(***************************************************************************)
(* The dialog of a page (common.js): one window and one submit button for  *)
(* all the buttons that open it. The button's data (url, method, block)    *)
(* are set when it is opened, the method and the form only when the form   *)
(* has arrived; a save takes whatever they are when it is clicked.         *)
(***************************************************************************)
EXTENDS Page

CONSTANTS
    Records,  \* the records that have buttons
    NoRecord, \* the record of a form that creates one
    Buttons   \* the buttons of the page: what they do, the record, whether in a block

Kinds == {"create", "update", "view", "delete", "json"}
Button == [kind : Kinds, record : Records \union {NoRecord}, block : BOOLEAN]

ASSUME ModalAssumption == NoRecord \notin Records /\ Buttons \subseteq Button

VARIABLES
    submit,   \* the data of the submit button
    dialog,   \* the window, the button whose form or text it holds, its alert
    openings, \* the forms that are being loaded
    saves     \* the requests modal_form_submit has sent (history)

modalVars == <<submit, dialog, openings, saves>>

NoButton == [kind |-> "none", record |-> NoRecord, block |-> FALSE]
NoUrl == [to |-> "none", record |-> NoRecord]

ModalInit ==
    /\ submit = [url |-> NoUrl, method |-> "none", block |-> FALSE, visible |-> TRUE]
    /\ dialog = [window |-> "hidden", of |-> NoButton, alert |-> FALSE, alone |-> TRUE]
    /\ openings = {}
    /\ saves = <<>>

\* Bootstrap ignores show and hide while the window is fading in or out.
Show(window) == IF window = "hidden" THEN "showing" ELSE window
Hide(window) == IF window = "shown" THEN "hiding" ELSE window

\* The end of the fading
Faded ==
    /\ Here /\ dialog.window \in {"showing", "hiding"}
    /\ dialog' = [dialog EXCEPT !.window = IF @ = "showing" THEN "shown" ELSE "hidden"]
    /\ UNCHANGED <<pageVars, submit, openings, saves>>

\* The user closes the window.
Close ==
    /\ Here /\ dialog.window = "shown"
    /\ dialog' = [dialog EXCEPT !.window = Hide(@)]
    /\ UNCHANGED <<pageVars, submit, openings, saves>>

UrlOf(button) == [to |-> button.kind, record |-> button.record]

\* Variant with a fault: data-submit-url only
SubmitUrlOnly(button) == IF button.kind \in {"view", "json"} THEN submit.url ELSE UrlOf(button)

\* submit_url || url. A button for JSON has neither, and .data("url", undefined)
\* leaves the value as it is.
SubmitUrl(button) == IF button.kind = "json" THEN submit.url ELSE UrlOf(button)

Alone(o) == [o EXCEPT !.alone = FALSE]

\* A click on a button that opens the dialog (behind an open window they cannot
\* be reached): the form is requested, the text is there. The dialog holds a
\* button alone if no form was on its way meanwhile (history).
ModalOpen(button) ==
    /\ Click /\ button \in Buttons /\ dialog.window = "hidden"
    /\ LET url == SubmitUrl(button)
       IN IF button.kind \in {"delete", "json"}
          THEN /\ submit' = [url |-> url, block |-> button.block,
                             visible |-> button.kind = "delete",
                             method |-> IF button.kind = "delete" THEN "DELETE" ELSE submit.method]
               /\ dialog' = [window |-> Show("hidden"), of |-> button, alert |-> FALSE,
                             alone |-> openings = {}]
               /\ openings' = {Alone(o) : o \in openings}
          ELSE /\ submit' = [submit EXCEPT !.url = url, !.block = button.block]
               /\ openings' = {Alone(o) : o \in openings}
                              \union {[button |-> button, alone |-> openings = {}, click |-> clicks']}
               /\ UNCHANGED dialog
    /\ UNCHANGED <<scripts, bound, left, saves>>

Method(button) == IF button.kind = "create" THEN "POST" ELSE "PUT"

\* The form arrives. Those to create and update bring common.js along.
FormLoaded(o) ==
    /\ Here /\ o \in openings
    /\ openings' = openings \ {o}
    /\ dialog' = [window |-> Show(dialog.window), of |-> o.button, alert |-> FALSE,
                  alone |-> o.alone]
    /\ submit' = [submit EXCEPT !.visible = TRUE, !.method = Method(o.button)]
    /\ scripts' = scripts + (IF o.button.kind \in {"create", "update"} THEN 1 ELSE 0)
    /\ UNCHANGED <<bound, left, clicks, saves>>

\* $.get has no handler for errors: nothing opens.
FormFailed(o) ==
    /\ Here /\ o \in openings
    /\ openings' = openings \ {o}
    /\ UNCHANGED <<pageVars, submit, dialog, saves>>

-----------------------------------------------------------------------------
(* Saving *)

\* The request for the form that the window holds. A second click before the
\* answer sends a second one.
ModalSubmit ==
    /\ Click /\ dialog.window # "hidden" /\ submit.visible
    /\ saves' = saves \o [k \in 1 .. Runs(bound) |->
                    [url |-> submit.url, method |-> submit.method, block |-> submit.block,
                     of |-> dialog.of, alone |-> dialog.alone, click |-> clicks', state |-> "sent"]]
    /\ UNCHANGED <<scripts, bound, left, submit, dialog, openings>>

\* The routes: each has its own path, with the identifier in the query.
Accepted(save) == <<save.url.to, save.method>> \in
    {<<"create", "POST">>, <<"update", "PUT">>, <<"delete", "DELETE">>}

SetState(i, state) == saves' = [saves EXCEPT ![i].state = state]

\* The server deals with the request; it may refuse any, and the wrong routes.
ModalServe(i) ==
    /\ Here /\ i \in DOMAIN saves /\ saves[i].state = "sent"
    /\ \E state \in {"refused"} \union (IF Accepted(saves[i]) THEN {"done"} ELSE {}) :
          SetState(i, state)
    /\ UNCHANGED <<pageVars, submit, dialog, openings>>

\* Success: the window is closed, and the block or the page is loaded anew. The
\* composition loads the block.
ModalSaved(i) ==
    /\ Here /\ i \in DOMAIN saves /\ saves[i].state = "done"
    /\ SetState(i, "saved")
    /\ dialog' = [dialog EXCEPT !.window = Hide(@)]
    /\ left' = ~saves[i].block
    /\ UNCHANGED <<scripts, bound, clicks, submit, openings>>

\* An error with a message goes to the alert of the form that is there now.
ModalRefused(i) ==
    /\ Here /\ i \in DOMAIN saves /\ saves[i].state = "refused"
    /\ SetState(i, "failed")
    /\ dialog' = [dialog EXCEPT !.alert = TRUE]
    /\ UNCHANGED <<pageVars, submit, openings>>

\* No answer, or one without JSON: nothing is shown.
ModalLost(i) ==
    /\ Here /\ i \in DOMAIN saves /\ saves[i].state \in {"sent", "done", "refused"}
    /\ SetState(i, "lost")
    /\ UNCHANGED <<pageVars, submit, dialog, openings>>

-----------------------------------------------------------------------------
(* Properties *)

ModalTypeOK ==
    /\ submit.url.to \in Kinds \union {"none"} /\ submit.url.record \in Records \union {NoRecord}
    /\ submit.method \in {"none", "POST", "PUT", "DELETE"}
    /\ submit.block \in BOOLEAN /\ submit.visible \in BOOLEAN
    /\ dialog.window \in {"hidden", "showing", "shown", "hiding"}
    /\ dialog.of \in Buttons \union {NoButton}
    /\ dialog.alert \in BOOLEAN /\ dialog.alone \in BOOLEAN
    /\ openings \subseteq [button : Buttons, alone : BOOLEAN, click : 1 .. MaxClicks]
    /\ \A i \in DOMAIN saves :
          saves[i].state \in {"sent", "done", "refused", "saved", "failed", "lost"}

\* What the server would carry out is what the user was shown: the record of the
\* dialog, by the operation of the dialog. The url is set by the click and the
\* form by its arrival, so that this fails when a second form is asked for
\* while one is on its way; after that, the next dialog is sound again.
SavesOwnRecord ==
    \A i \in DOMAIN saves :
        saves[i].alone /\ Accepted(saves[i]) => saves[i].url = UrlOf(saves[i].of)
=============================================================================
