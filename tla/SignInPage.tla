----------------------------- MODULE SignInPage -----------------------------
(***************************************************************************)
(* The page to sign in (auth.js): the fingerprint of the device that comes *)
(* later, the fields of the code between which each released key moves the *)
(* focus, and the two requests with their answers, in any order. Nothing   *)
(* keeps the user from clicking twice or from editing the address after    *)
(* the code was sent. What the server does with a request, given up by the *)
(* page or not, is in ConfirmationCodes: here it is an answer that comes   *)
(* or does not.                                                            *)
(***************************************************************************)
EXTENDS Integers, Sequences, FiniteSets

CONSTANTS
    Emails,      \* what the user enters as the address
    ValidEmails, \* those that match email_regex
    NoEmail,     \* the empty input
    Digits,
    OtherKeys,   \* "backspace", "left", "right"
    CodeLength,  \* the number of fields
    MaxRequests, \* bound on the requests
    MaxKeys      \* bound on the keys pressed and the fields clicked

NoDigit == "empty" \* what a field holds before a digit is typed

ASSUME SignInAssumption ==
    /\ ValidEmails \subseteq Emails /\ NoEmail \in Emails \ ValidEmails
    /\ OtherKeys \subseteq {"backspace", "left", "right"}
    /\ Digits \intersect {"backspace", "left", "right", NoDigit} = {}
    /\ CodeLength \in Nat \ {0} /\ MaxRequests \in Nat /\ MaxKeys \in Nat

VARIABLES
    known,    \* user_device_id and time_zone are filled
    email,    \* the value of the input
    invalid,  \* it is marked as invalid
    fields,   \* the digits in the fields of the code
    focus,    \* the field that has the focus; 0: none
    selected, \* its digit is selected
    down,     \* the keys that are down, in the order they were pressed
    asked,    \* a code was sent: the fields and the button to sign in are
              \* enabled, the button to request a code is disabled
    error,    \* the error is shown
    left,     \* location.href has been assigned
    waiting,  \* how many requests of each kind the page waits for
    sent,     \* the number of requests sent (bound)
    keys,     \* the number of keys pressed and fields clicked (bound)
    typed,    \* the digits that were typed, as long as only holds (history)
    only,     \* only digits were typed, nothing else moved the focus (history)
    single    \* no key was pressed before the one before was released (history)

deviceVars == <<known, email, invalid>>
histVars == <<typed, only, single>>
codeVars == <<fields, focus, selected, down, keys, histVars>>
pageVars == <<asked, error, left>>
requestVars == <<waiting, sent>>
vars == <<deviceVars, codeVars, pageVars, requestVars>>

\* A request for a code that was sent before the fingerprint came names no device.
Kinds == {"code", "code for no device", "sign in"}

Fields == 1 .. CodeLength

Init ==
    /\ known = FALSE /\ email = NoEmail /\ invalid = FALSE
    /\ fields = [f \in Fields |-> NoDigit]
    /\ focus = 0 /\ selected = FALSE /\ down = <<>>
    /\ asked = FALSE /\ error = FALSE /\ left = FALSE
    /\ waiting = [k \in Kinds |-> 0] /\ sent = 0
    /\ keys = 0 /\ typed = <<>> /\ only = TRUE /\ single = TRUE

\* ThumbmarkJS.get().then: both hidden inputs are filled.
Fingerprint ==
    /\ ~left /\ ~known
    /\ known' = TRUE
    /\ UNCHANGED <<email, invalid, codeVars, pageVars, requestVars>>

EditEmail(e) ==
    /\ ~left /\ e # email
    /\ email' = e
    /\ UNCHANGED <<known, invalid, codeVars, pageVars, requestVars>>

-----------------------------------------------------------------------------
(* The fields of the code *)

Keys == Digits \union OtherKeys

\* What the browser does with a key that is pressed (at most two at a time): a
\* digit replaces what is selected, and does not go into a field that is full.
KeyDown(k) ==
    /\ ~left /\ focus # 0 /\ Len(down) < 2 /\ keys < MaxKeys
    /\ \A i \in DOMAIN down : down[i] # k
    /\ fields' = IF k \in Digits
                 THEN IF selected \/ fields[focus] = NoDigit
                      THEN [fields EXCEPT ![focus] = k] ELSE fields
                 ELSE IF k = "backspace" THEN [fields EXCEPT ![focus] = NoDigit] ELSE fields
    /\ selected' = FALSE
    /\ down' = Append(down, k)
    /\ keys' = keys + 1
    /\ only' = (only /\ k \in Digits)
    /\ typed' = IF only' THEN Append(typed, k) ELSE <<>>
    /\ single' = (single /\ down = <<>>)
    /\ UNCHANGED <<deviceVars, focus, pageVars, requestVars>>

\* Variants with a fault: the last field is not the next of the one before; the
\* last field has a next one
NextFieldShort(f, k) ==
    IF k \in {"backspace", "left"} THEN f - 1 ELSE IF f < CodeLength - 1 THEN f + 1 ELSE 0
NextFieldBeyond(f, k) == IF k \in {"backspace", "left"} THEN f - 1 ELSE f + 1

\* data-previous and data-next; 0 if there is none
NextField(f, k) ==
    IF k \in {"backspace", "left"} THEN f - 1 ELSE IF f < CodeLength THEN f + 1 ELSE 0

\* otp_field_keyup: the field that has the focus when the key is released gives
\* it to its neighbour, whose digit is selected.
KeyUp(i) ==
    /\ ~left /\ i \in DOMAIN down
    /\ down' = [j \in 1 .. Len(down) - 1 |-> IF j < i THEN down[j] ELSE down[j + 1]]
    /\ LET next == NextField(focus, down[i])
       IN IF next = 0 THEN UNCHANGED <<focus, selected>> ELSE focus' = next /\ selected' = TRUE
    /\ UNCHANGED <<deviceVars, fields, keys, histVars, pageVars, requestVars>>

\* The user clicks into a field.
ClickField(f) ==
    /\ ~left /\ asked /\ f # focus /\ keys < MaxKeys
    /\ keys' = keys + 1
    /\ focus' = f /\ selected' = FALSE
    /\ only' = FALSE /\ typed' = <<>>
    /\ UNCHANGED <<deviceVars, fields, down, single, pageVars, requestVars>>

-----------------------------------------------------------------------------
(* The requests *)

Send(k) ==
    /\ sent < MaxRequests /\ sent' = sent + 1
    /\ waiting' = [waiting EXCEPT ![k] = @ + 1]

RequestInvalid ==
    /\ ~left /\ ~asked /\ email \notin ValidEmails
    /\ invalid' = TRUE
    /\ UNCHANGED <<known, email, codeVars, pageVars, requestVars>>

RequestCode ==
    /\ ~left /\ ~asked /\ email \in ValidEmails
    /\ invalid' = FALSE
    /\ Send(IF known THEN "code" ELSE "code for no device")
    /\ UNCHANGED <<known, email, codeVars, pageVars>>

\* The code is whatever the fields hold, the address whatever the input holds.
SignIn ==
    /\ ~left /\ asked
    /\ Send("sign in")
    /\ UNCHANGED <<deviceVars, codeVars, pageVars>>

-----------------------------------------------------------------------------
(* The answers *)

Answer(k) ==
    /\ ~left /\ waiting[k] > 0
    /\ waiting' = [waiting EXCEPT ![k] = @ - 1]
    /\ UNCHANGED sent

\* success of sign_in_request_code: the focus goes to the first field, wherever
\* it was.
CodeSent ==
    /\ Answer("code")
    /\ asked' = TRUE /\ error' = FALSE
    /\ focus' = 1 /\ selected' = (selected /\ focus = 1)
    /\ only' = (only /\ typed = <<>>) /\ typed' = <<>>
    /\ UNCHANGED <<deviceVars, fields, down, keys, single, left>>

SignedIn ==
    /\ Answer("sign in")
    /\ error' = FALSE /\ left' = TRUE
    /\ UNCHANGED <<deviceVars, codeVars, asked>>

\* An error shows its message.
Refused(k) ==
    /\ Answer(k)
    /\ error' = TRUE
    /\ UNCHANGED <<deviceVars, codeVars, asked, left>>

\* An error without JSON, from the proxy or the browser: reading its message
\* throws, nothing is shown. The server may have done its part, or do it yet.
Failed(k) ==
    /\ Answer(k)
    /\ UNCHANGED <<deviceVars, codeVars, pageVars>>

Next ==
    \/ Fingerprint
    \/ \E e \in Emails : EditEmail(e)
    \/ \E k \in Keys : KeyDown(k)
    \/ \E i \in DOMAIN down : KeyUp(i)
    \/ \E f \in Fields : ClickField(f)
    \/ RequestInvalid \/ RequestCode \/ SignIn
    \/ CodeSent \/ SignedIn
    \/ \E k \in Kinds : Refused(k) \/ Failed(k)

Spec == Init /\ [][Next]_vars

-----------------------------------------------------------------------------
(* Properties *)

\* Every variable has its type.
TypeOK ==
    /\ known \in BOOLEAN /\ email \in Emails /\ invalid \in BOOLEAN
    /\ fields \in [Fields -> Digits \union {NoDigit}]
    /\ focus \in 0 .. CodeLength /\ selected \in BOOLEAN
    /\ down \in Seq(Keys) /\ keys \in 0 .. MaxKeys /\ typed \in Seq(Digits) /\ only \in BOOLEAN /\ single \in BOOLEAN
    /\ asked \in BOOLEAN /\ error \in BOOLEAN /\ left \in BOOLEAN
    /\ waiting \in [Kinds -> Nat] /\ sent \in 0 .. MaxRequests

\* The fields that hold a digit
Filled == {f \in Fields : fields[f] # NoDigit}

\* A released key moves the focus from the field that has it, not from the one
\* the key was typed in. Keys that overlap lose digits, but the fields keep the
\* order in which they were typed; and keys pressed one after another fill the
\* fields from the first to the last, each with its digit. (A focus that the
\* answer to a second request moves, and the keys to go back, can mix them up.)
CodeAsTyped ==
    only =>
        /\ \E at \in [Filled -> DOMAIN typed] :
              /\ \A f \in Filled : fields[f] = typed[at[f]]
              /\ \A f, g \in Filled : f < g => at[f] < at[g]
        /\ single =>
              /\ Filled = {f \in Fields : f <= Len(typed)}
              /\ \A f \in Filled : fields[f] = typed[f]
=============================================================================
