----------------------------- MODULE ModalProofs -----------------------------
(***************************************************************************)
(* What every step of the dialog preserves, on whatever page it is: the    *)
(* types of its state, and that the url of the submit button belongs to    *)
(* the form in the window.                                                 *)
(***************************************************************************)
EXTENDS Modal, SequenceTheorems, TLAPS

-----------------------------------------------------------------------------
(* Sequences that grow at their end, and change in place *)

\* One element is added at the end.
LEMMA OneAdded ==
    ASSUME NEW T, NEW s \in Seq(T), NEW e \in T
    PROVE  LET t == s \o [k \in 1 .. 1 |-> e]
           IN  /\ t \in Seq(T) /\ Len(t) = Len(s) + 1
               /\ DOMAIN t = 1 .. Len(s) + 1
               /\ \A i \in 1 .. Len(s) : t[i] = s[i]
               /\ t[Len(s) + 1] = e
  <1> DEFINE one == [k \in 1 .. 1 |-> e]
  <1>1. one \in Seq(T) /\ Len(one) = 1 /\ one[1] = e
    <2>1. one = <<e>>
      OBVIOUS
    <2>2. QED
      BY <2>1
  <1>2. Len(s) \in Nat
    OBVIOUS
  <1> HIDE DEF one
  <1>3. /\ s \o one \in Seq(T) /\ Len(s \o one) = Len(s) + 1
        /\ \A i \in 1 .. Len(s) + 1 : (s \o one)[i] = IF i <= Len(s) THEN s[i] ELSE one[i - Len(s)]
    <2>1. /\ s \o one \in Seq(T) /\ Len(s \o one) = Len(s) + Len(one)
          /\ \A i \in 1 .. Len(s) + Len(one) :
                (s \o one)[i] = IF i <= Len(s) THEN s[i] ELSE one[i - Len(s)]
      BY <1>1, ConcatProperties
    <2>2. QED
      BY <1>1, <2>1
  <1>4. (s \o one)[Len(s) + 1] = e
    BY <1>1, <1>2, <1>3
  <1>5. \A i \in 1 .. Len(s) : (s \o one)[i] = s[i]
    BY <1>2, <1>3
  <1>6. DOMAIN (s \o one) = 1 .. Len(s) + 1
    BY <1>3, LenProperties
  <1>7. QED
    BY <1>3, <1>4, <1>5, <1>6 DEF one

\* One element is replaced.
LEMMA OneChanged ==
    ASSUME NEW T, NEW s \in Seq(T), NEW i \in DOMAIN s, NEW e \in T
    PROVE  LET t == [s EXCEPT ![i] = e]
           IN  /\ t \in Seq(T) /\ Len(t) = Len(s) /\ DOMAIN t = DOMAIN s
               /\ t[i] = e /\ \A j \in DOMAIN s : j # i => t[j] = s[j]
  BY ExceptSeq, LenProperties

\* Each element is replaced.
LEMMA AllChanged ==
    ASSUME NEW T, NEW s \in Seq(T), NEW t, t = [i \in DOMAIN s |-> t[i]],
           \A i \in DOMAIN s : t[i] \in T
    PROVE  t \in Seq(T) /\ Len(t) = Len(s) /\ DOMAIN t = DOMAIN s
  <1>1. Len(s) \in Nat /\ DOMAIN s = 1 .. Len(s)
    BY LenProperties
  <1>2. t \in [1 .. Len(s) -> T]
    BY <1>1
  <1>3. t \in Seq(T) /\ Len(t) = Len(s)
    BY <1>1, <1>2, SeqDef, LenProperties
  <1>4. QED
    BY <1>1, <1>2, <1>3

-----------------------------------------------------------------------------
(* Types *)

Url == [to : Kinds \union {"none"}, record : Records \union {NoRecord}]
Submit == [url : Url, method : {"none", "POST", "PUT", "DELETE"}, block : BOOLEAN, visible : BOOLEAN]
DialogState == [window : {"hidden", "showing", "shown", "hiding"}, of : Buttons \union {NoButton},
                alert : BOOLEAN, alone : BOOLEAN]
Opening == [button : Buttons, alone : BOOLEAN, click : 1 .. MaxClicks]
Save == [url : Url, method : {"none", "POST", "PUT", "DELETE"}, block : BOOLEAN,
         of : Buttons \union {NoButton}, alone : BOOLEAN, click : 1 .. MaxClicks,
         state : {"sent", "done", "refused", "saved", "failed", "lost"}]

ModalTypes ==
    /\ PageTypeOK
    /\ submit \in Submit /\ dialog \in DialogState /\ openings \subseteq Opening /\ saves \in Seq(Save)

\* The invariant proved is at least the type invariants of the page and of the dialog.
LEMMA ModalTypesImply == ModalTypes => PageTypeOK /\ ModalTypeOK
  <1> SUFFICES ASSUME ModalTypes PROVE PageTypeOK /\ ModalTypeOK
    OBVIOUS
  <1>1. PageTypeOK
    BY DEF ModalTypes
  <1>2. /\ submit.url.to \in Kinds \union {"none"} /\ submit.url.record \in Records \union {NoRecord}
        /\ submit.method \in {"none", "POST", "PUT", "DELETE"}
        /\ submit.block \in BOOLEAN /\ submit.visible \in BOOLEAN
    BY DEF ModalTypes, Submit, Url
  <1>3. /\ dialog.window \in {"hidden", "showing", "shown", "hiding"}
        /\ dialog.of \in Buttons \union {NoButton}
        /\ dialog.alert \in BOOLEAN /\ dialog.alone \in BOOLEAN
    BY DEF ModalTypes, DialogState
  <1>4. openings \subseteq [button : Buttons, alone : BOOLEAN, click : 1 .. MaxClicks]
    BY DEF ModalTypes, Opening
  <1>5. \A i \in DOMAIN saves : saves[i].state \in {"sent", "done", "refused", "saved", "failed", "lost"}
    <2>1. \A i \in DOMAIN saves : saves[i] \in Save
      BY LenProperties, ElementOfSeq DEF ModalTypes
    <2>2. QED
      BY <2>1 DEF Save
  <1>6. QED
    BY <1>1, <1>2, <1>3, <1>4, <1>5 DEF ModalTypeOK

\* What the dialog does, and what comes back
ModalStep ==
    \/ \E button \in Buttons : ModalOpen(button)
    \/ \E o \in openings : FormLoaded(o) \/ FormFailed(o)
    \/ Faded \/ Close \/ ModalSubmit
    \/ \E i \in DOMAIN saves : ModalServe(i) \/ ModalSaved(i) \/ ModalRefused(i) \/ ModalLost(i)

\* A click is counted, and what is bound runs once.
LEMMA ClickCounts ==
    ASSUME PageTypeOK, Click
    PROVE  clicks' = clicks + 1 /\ clicks' \in 1 .. MaxClicks /\ Runs(bound) = 1
  BY PageAssumption DEF PageTypeOK, Click, Runs, MaxBound

\* What a click on the submit button adds to the requests
Sending == [url |-> submit.url, method |-> submit.method, block |-> submit.block,
            of |-> dialog.of, alone |-> dialog.alone, click |-> clicks', state |-> "sent"]

\* What a click on the dialog's button puts on its way.
LEMMA SubmitAdds ==
    ASSUME ModalTypes, ModalSubmit
    PROVE  /\ Sending \in Save /\ saves' \in Seq(Save) /\ Len(saves') = Len(saves) + 1
           /\ DOMAIN saves = 1 .. Len(saves) /\ DOMAIN saves' = 1 .. Len(saves) + 1
           /\ \A i \in DOMAIN saves : saves'[i] = saves[i]
           /\ saves'[Len(saves) + 1] = Sending
  <1>1. clicks' \in 1 .. MaxClicks /\ Runs(bound) = 1
    BY ClickCounts DEF ModalTypes, ModalSubmit
  <1>2. Sending \in Save
    BY <1>1 DEF ModalTypes, Submit, DialogState, Save, Sending
  <1>3. saves' = saves \o [k \in 1 .. 1 |-> Sending]
    BY <1>1 DEF ModalSubmit, Sending
  <1>4. saves \in Seq(Save) /\ DOMAIN saves = 1 .. Len(saves)
    BY LenProperties DEF ModalTypes
  <1> HIDE DEF Sending
  <1>5. QED
    BY <1>2, <1>3, <1>4, OneAdded

\* Setting the state of the dialog leaves everything else of it alone.
LEMMA StateSet ==
    ASSUME ModalTypes, NEW i \in DOMAIN saves,
           NEW state \in {"sent", "done", "refused", "saved", "failed", "lost"}, SetState(i, state)
    PROVE  /\ saves' \in Seq(Save) /\ DOMAIN saves' = DOMAIN saves
           /\ saves'[i] = [saves[i] EXCEPT !.state = state]
           /\ \A j \in DOMAIN saves : j # i => saves'[j] = saves[j]
  <1>1. saves \in Seq(Save) /\ saves[i] \in Save
    BY LenProperties, ElementOfSeq DEF ModalTypes
  <1>2. [saves[i] EXCEPT !.state = state] \in Save
    BY <1>1 DEF Save
  <1>3. saves' = [saves EXCEPT ![i] = [saves[i] EXCEPT !.state = state]]
    BY DEF SetState
  <1>4. QED
    BY <1>1, <1>2, <1>3, OneChanged

\* Every step of the dialog keeps the types.
LEMMA ModalKeepsTypes ==
    ASSUME ModalTypes, ModalStep
    PROVE  ModalTypes'
  <1>0. /\ scripts \in Nat /\ bound \in 0 .. MaxBound /\ left \in BOOLEAN /\ clicks \in 0 .. MaxClicks
        /\ submit \in Submit /\ dialog \in DialogState /\ openings \subseteq Opening /\ saves \in Seq(Save)
    BY DEF ModalTypes, PageTypeOK
  <1>1. ASSUME NEW button \in Buttons, ModalOpen(button) PROVE ModalTypes'
    <2>1. clicks' \in 1 .. MaxClicks /\ Click /\ UNCHANGED <<scripts, bound, left, saves>>
      BY <1>1, ClickCounts DEF ModalOpen, ModalTypes
    <2>2. button \in Button /\ UrlOf(button) \in Url /\ SubmitUrl(button) \in Url
      BY <1>0, ModalAssumption DEF Button, UrlOf, Url, SubmitUrl, Submit
    <2>3. \A o \in Opening : Alone(o) \in Opening
      BY DEF Alone, Opening
    <2> DEFINE empty == openings = {}
               shows == button.kind = "delete"
               method == IF button.kind = "delete" THEN "DELETE" ELSE submit.method
    <2>4. empty \in BOOLEAN /\ shows \in BOOLEAN /\ method \in {"none", "POST", "PUT", "DELETE"}
      BY <1>0 DEF Submit
    <2>5. button.block \in BOOLEAN
      BY <2>2 DEF Button
    <2>6. CASE button.kind \in {"delete", "json"}
      <3>1. /\ submit' = [url |-> SubmitUrl(button), block |-> button.block, visible |-> shows,
                          method |-> method]
            /\ dialog' = [window |-> Show("hidden"), of |-> button, alert |-> FALSE, alone |-> empty]
            /\ openings' = {Alone(o) : o \in openings}
        BY <1>1, <2>6 DEF ModalOpen
      <3> HIDE DEF empty, shows, method
      <3>2. submit' \in Submit
        BY <2>2, <2>4, <2>5, <3>1 DEF Submit
      <3>3. dialog' \in DialogState
        BY <2>4, <3>1 DEF DialogState, Show
      <3>4. openings' \subseteq Opening
        BY <1>0, <2>3, <3>1
      <3>5. QED
        BY <1>0, <2>1, <3>2, <3>3, <3>4 DEF ModalTypes, PageTypeOK
    <2>7. CASE button.kind \notin {"delete", "json"}
      <3>1. /\ submit' = [submit EXCEPT !.url = SubmitUrl(button), !.block = button.block]
            /\ openings' = {Alone(o) : o \in openings}
                              \union {[button |-> button, alone |-> empty, click |-> clicks']}
            /\ dialog' = dialog
        BY <1>1, <2>7 DEF ModalOpen
      <3> HIDE DEF empty
      <3>2. submit' \in Submit
        BY <1>0, <2>2, <2>5, <3>1 DEF Submit
      <3>3. [button |-> button, alone |-> empty, click |-> clicks'] \in Opening
        BY <2>1, <2>4 DEF Opening
      <3>4. openings' \subseteq Opening
        BY <1>0, <2>3, <3>1, <3>3
      <3>5. QED
        BY <1>0, <2>1, <3>1, <3>2, <3>4 DEF ModalTypes, PageTypeOK
    <2>8. QED
      BY <2>6, <2>7
  <1>2. ASSUME NEW o \in openings, FormLoaded(o) PROVE ModalTypes'
    <2>1. o \in Opening /\ o.button \in Buttons /\ o.alone \in BOOLEAN
      BY <1>0 DEF Opening
    <2>2. openings' \subseteq Opening /\ UNCHANGED <<bound, left, clicks, saves>>
      BY <1>0, <1>2 DEF FormLoaded
    <2>3. dialog' \in DialogState
      BY <1>0, <1>2, <2>1 DEF FormLoaded, DialogState, Show
    <2>4. submit' \in Submit
      BY <1>0, <1>2 DEF FormLoaded, Submit, Method
    <2>5. scripts' \in Nat
      BY <1>0, <1>2 DEF FormLoaded
    <2>6. QED
      BY <1>0, <2>2, <2>3, <2>4, <2>5 DEF ModalTypes, PageTypeOK
  <1>3. ASSUME NEW o \in openings, FormFailed(o) PROVE ModalTypes'
    BY <1>0, <1>3 DEF FormFailed, pageVars, ModalTypes, PageTypeOK
  <1>4. CASE Faded \/ Close
    <2>1. UNCHANGED <<pageVars, submit, openings, saves>>
      BY <1>4 DEF Faded, Close
    <2>2. dialog' \in DialogState
      BY <1>0, <1>4 DEF Faded, Close, Hide, DialogState
    <2>3. QED
      BY <1>0, <2>1, <2>2 DEF pageVars, ModalTypes, PageTypeOK
  <1>5. CASE ModalSubmit
    <2>1. saves' \in Seq(Save)
      BY <1>5, SubmitAdds
    <2>2. clicks' \in 0 .. MaxClicks
      BY <1>5, ClickCounts DEF ModalSubmit, ModalTypes
    <2>3. UNCHANGED <<scripts, bound, left, submit, dialog, openings>>
      BY <1>5 DEF ModalSubmit
    <2>4. QED
      BY <1>0, <2>1, <2>2, <2>3 DEF ModalTypes, PageTypeOK
  <1>6. ASSUME NEW i \in DOMAIN saves,
               ModalServe(i) \/ ModalSaved(i) \/ ModalRefused(i) \/ ModalLost(i)
        PROVE  ModalTypes'
    <2>1. saves' \in Seq(Save)
      <3>1. \E state \in {"sent", "done", "refused", "saved", "failed", "lost"} : SetState(i, state)
        BY <1>6 DEF ModalServe, ModalSaved, ModalRefused, ModalLost
      <3>2. QED
        BY <3>1, StateSet
    <2>2. saves[i] \in Save
      BY <1>0, LenProperties, ElementOfSeq
    <2>3. left' \in BOOLEAN /\ UNCHANGED <<scripts, bound, clicks, submit, openings>>
      BY <1>0, <1>6, <2>2 DEF ModalServe, ModalSaved, ModalRefused, ModalLost, pageVars, Save
    <2>4. dialog' \in DialogState
      BY <1>0, <1>6 DEF ModalServe, ModalSaved, ModalRefused, ModalLost, DialogState, Hide
    <2>5. QED
      BY <1>0, <2>1, <2>3, <2>4 DEF ModalTypes, PageTypeOK
  <1>7. QED
    BY <1>1, <1>2, <1>3, <1>4, <1>5, <1>6 DEF ModalStep

\* The page as it is served has the right types.
LEMMA ModalTypesInit == PageInit /\ ModalInit => ModalTypes
  <1> SUFFICES ASSUME PageInit, ModalInit PROVE ModalTypes
    OBVIOUS
  <1>1. PageTypeOK
    <2>1. scripts \in Nat /\ bound \in 0 .. MaxBound /\ clicks \in 0 .. MaxClicks
      BY PageAssumption DEF PageInit, MaxBound
    <2>2. left \in BOOLEAN
      BY DEF PageInit
    <2>3. QED
      BY <2>1, <2>2 DEF PageTypeOK
  <1>2. submit \in Submit /\ dialog \in DialogState
    BY DEF ModalInit, Submit, DialogState, Url, NoUrl
  <1>3. saves \in Seq(Save)
    BY EmptySeq DEF ModalInit
  <1>4. QED
    BY <1>1, <1>2, <1>3 DEF ModalInit, ModalTypes

-----------------------------------------------------------------------------
(* The record of a save *)

\* A form that is alone on its way is that of the last button clicked; what the
\* window holds alone has the url of the submit button, if that can be seen.
UrlOK ==
    /\ \A o \in openings : o.alone => submit.url = UrlOf(o.button)
    /\ dialog.window # "hidden" /\ dialog.alone /\ submit.visible => submit.url = UrlOf(dialog.of)
    /\ \A i \in DOMAIN saves : saves[i].alone => saves[i].url = UrlOf(saves[i].of)

\* Every step of the dialog keeps it so.
LEMMA ModalKeepsUrl ==
    ASSUME ModalTypes, UrlOK, ModalStep
    PROVE  UrlOK'
  <1>0. submit \in Submit /\ dialog \in DialogState /\ openings \subseteq Opening /\ saves \in Seq(Save)
    BY DEF ModalTypes
  <1>1. ASSUME NEW button \in Buttons, ModalOpen(button) PROVE UrlOK'
    <2>1. UNCHANGED saves /\ dialog.window = "hidden"
      BY <1>1 DEF ModalOpen
    <2>2. \A o \in openings : Alone(o).alone = FALSE
      BY <1>0 DEF Alone, Opening
    <2>3. CASE button.kind \in {"delete", "json"}
      <3>1. \A o \in openings' : o.alone = FALSE
        BY <1>1, <2>2, <2>3 DEF ModalOpen
      <3>2. dialog'.of = button /\ submit'.url = SubmitUrl(button)
        BY <1>1, <2>3 DEF ModalOpen
      <3>3. submit'.visible => button.kind = "delete"
        <4> DEFINE shows == button.kind = "delete"
                   method == IF shows THEN "DELETE" ELSE submit.method
        <4>1. submit' = [url |-> SubmitUrl(button), block |-> button.block, visible |-> shows,
                         method |-> method]
          BY <1>1, <2>3 DEF ModalOpen
        <4>2. shows => button.kind = "delete"
          OBVIOUS
        <4> HIDE DEF shows, method
        <4>3. submit'.visible = shows
          BY <4>1
        <4>4. QED
          BY <4>2, <4>3
      <3>4. button.kind = "delete" => SubmitUrl(button) = UrlOf(button)
        BY DEF SubmitUrl
      <3>5. QED
        BY <2>1, <3>1, <3>2, <3>3, <3>4 DEF UrlOK
    <2>4. CASE button.kind \notin {"delete", "json"}
      <3> DEFINE new == [button |-> button, alone |-> openings = {}, click |-> clicks']
      <3>1. new.button = button
        OBVIOUS
      <3>2. openings' = {Alone(o) : o \in openings} \union {new}
            /\ submit' = [submit EXCEPT !.url = SubmitUrl(button), !.block = button.block]
            /\ dialog' = dialog
        BY <1>1, <2>4 DEF ModalOpen
      <3> HIDE DEF new
      <3>3. submit'.url = UrlOf(button)
        BY <1>0, <2>4, <3>2 DEF SubmitUrl, Submit
      <3>4. \A o \in openings' : o.alone => o = new
        BY <2>2, <3>2
      <3>5. QED
        BY <2>1, <3>1, <3>2, <3>3, <3>4 DEF UrlOK
    <2>5. QED
      BY <2>3, <2>4
  <1>2. ASSUME NEW o \in openings, FormLoaded(o) PROVE UrlOK'
    <2>1. openings' \subseteq openings /\ UNCHANGED saves
          /\ dialog'.of = o.button /\ dialog'.alone = o.alone
      BY <1>2 DEF FormLoaded
    <2>2. submit'.url = submit.url
      BY <1>0, <1>2 DEF FormLoaded, Submit
    <2>3. QED
      BY <2>1, <2>2 DEF UrlOK
  <1>3. ASSUME NEW o \in openings, FormFailed(o) PROVE UrlOK'
    BY <1>3 DEF FormFailed, UrlOK
  <1>4. CASE Faded \/ Close
    <2>1. UNCHANGED <<submit, openings, saves>> /\ dialog.window # "hidden"
      BY <1>4 DEF Faded, Close
    <2>2. dialog'.of = dialog.of /\ dialog'.alone = dialog.alone
      BY <1>0, <1>4 DEF Faded, Close, DialogState
    <2>3. QED
      BY <2>1, <2>2 DEF UrlOK
  <1>5. CASE ModalSubmit
    <2>1. UNCHANGED <<submit, dialog, openings>> /\ dialog.window # "hidden" /\ submit.visible
      BY <1>5 DEF ModalSubmit
    <2>2. /\ DOMAIN saves = 1 .. Len(saves) /\ DOMAIN saves' = 1 .. Len(saves) + 1
          /\ \A i \in DOMAIN saves : saves'[i] = saves[i]
          /\ saves'[Len(saves) + 1] = Sending
      BY <1>5, SubmitAdds
    <2>3. Sending.alone = dialog.alone /\ Sending.url = submit.url /\ Sending.of = dialog.of
      BY DEF Sending
    <2>4. ASSUME NEW i \in DOMAIN saves', saves'[i].alone PROVE saves'[i].url = UrlOf(saves'[i].of)
      <3>1. CASE i \in DOMAIN saves
        BY <2>2, <2>4, <3>1 DEF UrlOK
      <3>2. CASE i = Len(saves) + 1
        BY <2>1, <2>2, <2>3, <2>4, <3>2 DEF UrlOK
      <3>3. Len(saves) \in Nat
        BY <1>0
      <3>4. QED
        BY <2>2, <3>1, <3>2, <3>3
    <2>5. QED
      BY <2>1, <2>4 DEF UrlOK
  <1>6. ASSUME NEW i \in DOMAIN saves,
               ModalServe(i) \/ ModalSaved(i) \/ ModalRefused(i) \/ ModalLost(i)
        PROVE  UrlOK'
    <2>1. PICK state \in {"sent", "done", "refused", "saved", "failed", "lost"} : SetState(i, state)
      BY <1>6 DEF ModalServe, ModalSaved, ModalRefused, ModalLost
    <2>2. /\ DOMAIN saves' = DOMAIN saves /\ saves'[i] = [saves[i] EXCEPT !.state = state]
          /\ \A j \in DOMAIN saves : j # i => saves'[j] = saves[j]
      BY <2>1, StateSet
    <2>3. saves[i] \in Save
      BY <1>0, LenProperties, ElementOfSeq
    <2>4. saves'[i].alone = saves[i].alone /\ saves'[i].url = saves[i].url /\ saves'[i].of = saves[i].of
      BY <2>2, <2>3 DEF Save
    <2>5. ASSUME NEW j \in DOMAIN saves', saves'[j].alone PROVE saves'[j].url = UrlOf(saves'[j].of)
      <3>1. saves[j].alone => saves[j].url = UrlOf(saves[j].of)
        BY <2>2 DEF UrlOK
      <3>2. CASE j = i
        <4>1. UrlOf(saves'[i].of) = UrlOf(saves[i].of)
          BY <2>4
        <4>2. QED
          BY <2>4, <2>5, <3>1, <3>2, <4>1
      <3>3. CASE j # i
        <4>1. saves'[j] = saves[j]
          BY <2>2, <3>3
        <4>2. QED
          BY <2>5, <3>1, <4>1
      <3>4. QED
        BY <3>2, <3>3
    <2>6. UNCHANGED <<submit, openings>> /\ dialog'.of = dialog.of /\ dialog'.alone = dialog.alone
          /\ (dialog'.window # "hidden" => dialog.window # "hidden")
      BY <1>0, <1>6 DEF ModalServe, ModalSaved, ModalRefused, ModalLost, DialogState, Hide
    <2>7. QED
      BY <2>5, <2>6 DEF UrlOK
  <1>7. QED
    BY <1>1, <1>2, <1>3, <1>4, <1>5, <1>6 DEF ModalStep

\* Initially no form is on its way.
LEMMA UrlInit == ModalInit => UrlOK
  BY DEF ModalInit, UrlOK

\* The invariant gives the property the run checks.
LEMMA UrlImplies == UrlOK => SavesOwnRecord
  BY DEF UrlOK, SavesOwnRecord
=============================================================================
