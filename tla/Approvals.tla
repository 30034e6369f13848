------------------------------ MODULE Approvals ------------------------------
(***************************************************************************)
(* Requests that wait for the user: the permission and question brokers,   *)
(* the clients that reply to them, and the dialog of the enhanced chat     *)
(* with the pump that reads its keys.  A reply deletes the request under   *)
(* the broker's lock and sends the result afterwards; the pump reads a key *)
(* under the dialog of that moment, the chat handles it later.             *)
(***************************************************************************)
EXTENDS Naturals

CONSTANTS
    Permissions, Questions,  \* requests, each made once
    Clients,                 \* API clients beside the chat
    MaxKeys,                 \* bound on the keys typed
    None                     \* no dialog, no key, no reply

Requests == Permissions \cup Questions
Chat == "chat"
Repliers == Clients \cup {Chat}

VARIABLES
    pending,    \* requests in the brokers' maps
    caller,     \* per request: "idle", "asks", "takes" or what its call returned
    ended,      \* requests whose context is done or whose timer has fired
    sending,    \* per request: the reply that took it and was not sent yet
    channel,    \* per request: the reply in its channel
    told,       \* per request: the reply that was reported as accepted
    busy,       \* enhancedChatRuntime.busy
    modal,      \* request of the open dialog
    epoch,      \* enhancedInputMode.epoch
    pump,       \* the key read and not acknowledged
    keys,       \* number of keys read
    interrupts, \* interruptCount
    answer      \* the last reply by key: the dialog it was read under, the request

broker == <<pending, caller, ended, sending, channel, told>>
chat == <<busy, modal, epoch, pump, keys, interrupts, answer>>
vars == <<broker, chat>>

Init ==
    /\ pending = {} /\ caller = [r \in Requests |-> "idle"] /\ ended = {}
    /\ sending = [r \in Requests |-> None] /\ channel = [r \in Requests |-> None]
    /\ told = [r \in Requests |-> None]
    /\ busy = TRUE /\ modal = None /\ epoch = 0 /\ pump = None /\ keys = 0
    /\ interrupts = 0 /\ answer = None

-----------------------------------------------------------------------------
(* The brokers.                                                            *)

Ask(r) ==
    /\ busy /\ caller[r] = "idle"
    /\ caller' = [caller EXCEPT ![r] = "asks"] /\ pending' = pending \cup {r}
    /\ UNCHANGED <<ended, sending, channel, told, chat>>

\* The turn is interrupted or, for a permission, the timer fires.
Ends(r) ==
    /\ caller[r] = "asks" /\ ended' = ended \cup {r}
    /\ UNCHANGED <<pending, caller, sending, channel, told, chat>>

Receive(r) ==
    /\ caller[r] \in {"asks", "takes"} /\ channel[r] # None
    /\ caller' = [caller EXCEPT ![r] = channel[r]]
    /\ channel' = [channel EXCEPT ![r] = None]
    /\ UNCHANGED <<pending, ended, sending, told, chat>>

\* The call gives up.  A permission that a reply has already taken is awaited;
\* a question is given up in any case.
GiveUp(r) ==
    /\ caller[r] = "asks" /\ r \in ended
    /\ pending' = pending \ {r}
    /\ caller' = [caller EXCEPT ![r] =
            IF r \in Permissions /\ r \notin pending THEN "takes" ELSE "error"]
    /\ UNCHANGED <<ended, sending, channel, told, chat>>

\* The reply takes the request, if it is still there.
TakeFor(r, reply) ==
    IF r \in pending
    THEN pending' = pending \ {r} /\ sending' = [sending EXCEPT ![r] = reply]
    ELSE UNCHANGED <<pending, sending>>

Send(r) ==
    /\ sending[r] # None
    /\ channel' = [channel EXCEPT ![r] = sending[r]]
    /\ told' = [told EXCEPT ![r] = sending[r]]
    /\ sending' = [sending EXCEPT ![r] = None]
    /\ UNCHANGED <<pending, caller, ended, chat>>

\* Another client of the API replies to a request it has listed at some time.
ClientReplies(r) ==
    /\ \E reply \in {"allow", "deny"} : TakeFor(r, reply)
    /\ UNCHANGED <<caller, ended, channel, told, chat>>

-----------------------------------------------------------------------------
(* The chat.  It waits for its own calls of the API.                       *)

Free == \A r \in Requests : sending[r] = None

\* detectModal: a permission dialog whose request is gone is closed; without a
\* dialog the first pending permission is shown, or the first question.
DetectModal_SameEpoch ==
    /\ Free /\ modal' \in pending \cup {None} /\ modal = None
    /\ UNCHANGED <<broker, busy, epoch, pump, keys, interrupts, answer>>

DetectModal ==
    /\ Free
    /\ \/ /\ modal \in Permissions /\ modal \notin pending
          /\ modal' = None
       \/ /\ busy /\ modal = None
          /\ modal' \in (IF pending \cap Permissions # {} THEN pending \cap Permissions
                         ELSE pending)
    /\ epoch' = epoch + 1
    /\ UNCHANGED <<broker, busy, pump, keys, interrupts, answer>>

\* The pump reads one key at a time and waits for its acknowledgement.
ReadKey ==
    /\ pump = None /\ keys < MaxKeys /\ keys' = keys + 1
    /\ \E key \in {"yes", "no", "halt"} :
          pump' = [key |-> key, epoch |-> epoch, under |-> modal]
    /\ UNCHANGED <<broker, busy, modal, epoch, interrupts, answer>>

\* The dialog's request gets the reply and the dialog is closed, also when the
\* reply comes too late and an error is shown.
CloseModal(reply) ==
    /\ TakeFor(modal, reply)
    /\ answer' = [under |-> pump.under, key |-> pump.key, request |-> modal]
    /\ modal' = None /\ epoch' = epoch + 1

NoAnswer == UNCHANGED <<pending, sending, modal, epoch, answer>>

\* A halting key while the turn runs: the dialog is rejected and the turn
\* interrupted; the second one leaves the chat.
Halt ==
    /\ Free /\ busy /\ pump # None /\ pump.key = "halt" /\ interrupts < 2
    /\ interrupts' = interrupts + 1
    /\ IF modal = None THEN NoAnswer ELSE CloseModal("deny")
    /\ ended' = IF interrupts = 0 THEN {r \in Requests : caller[r] = "asks"} \cup ended ELSE ended
    /\ pump' = None
    /\ UNCHANGED <<caller, channel, told, busy, keys>>

\* Any other key goes to the dialog if it was read in the dialog's epoch, and
\* to the editor if not.
ForDialog == modal # None /\ pump.epoch = epoch

HandleKey ==
    /\ Free /\ pump # None /\ ~(busy /\ pump.key = "halt")
    /\ IF ForDialog THEN CloseModal(IF pump.key = "yes" THEN "allow" ELSE "deny")
       ELSE NoAnswer
    /\ pump' = None
    /\ UNCHANGED <<caller, ended, channel, told, busy, keys, interrupts>>

\* The event session.idle arrives; a question's dialog stays.
TurnOver ==
    /\ busy /\ \A r \in Requests : caller[r] \notin {"asks", "takes"}
    /\ busy' = FALSE
    /\ UNCHANGED <<broker, modal, epoch, pump, keys, interrupts, answer>>

Next ==
    \/ \E r \in Requests :
          Ask(r) \/ Ends(r) \/ Receive(r) \/ GiveUp(r) \/ Send(r)
          \/ (Clients # {} /\ ClientReplies(r))
    \/ DetectModal \/ ReadKey \/ Halt \/ HandleKey \/ TurnOver

Spec == Init /\ [][Next]_vars

-----------------------------------------------------------------------------
Returned(r) == caller[r] \notin {"idle", "asks", "takes"}

\* "Each reply settles exactly the request which raised it": a permission reply
\* that was reported as accepted is what the tool's call returns, also when the
\* call was about to give up (Authorize, removePending).
AcceptedIsDelivered ==
    \A r \in Permissions : told[r] # None /\ Returned(r) => caller[r] = told[r]

\* A request is allowed or denied by a key only if the key was read under that
\* request's dialog, not before it opened nor under another one; a halting key
\* denies whatever is shown (enhancedInputMode).
KeyMeantIt ==
    answer # None => answer.key = "halt" \/ answer.under = answer.request

\* A reply is what somebody meant and reaches whom it was meant for
\* (permission.Broker, enhancedChatRuntime).
RepliesAreMeant == AcceptedIsDelivered /\ KeyMeantIt
=============================================================================
