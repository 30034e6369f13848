---------------------------- MODULE Credentials -----------------------------
(***************************************************************************)
(* The credential file and the OAuth credential in it: the callers of one  *)
(* token source, who refresh the credential together; a login or a logout  *)
(* of another process, which has a store of its own over the same file;    *)
(* and the issuer, which accepts a refresh token once and replaces it.     *)
(* A credential is the number the issuer gave it; 0 is none.               *)
(***************************************************************************)
EXTENDS Integers, FiniteSets

CONSTANTS
    Callers,   \* callers of TokenSource.Token, in one process
    MaxIssued  \* bound on the credentials issued

Commands == {"login", "logout", "key"}
Actors == Callers \cup {"cli"}
Names == {"chatgpt", "other"}
Empty == [n \in Names |-> 0]
Process(a) == IF a \in Callers THEN "app" ELSE "cli"
Error == -1

VARIABLES
    file,      \* the credentials on disk, by name
    stored,    \* credentials the file has held
    issued,    \* number of credentials issued
    accepted,  \* refresh tokens the issuer accepts
    used,      \* per credential: how often its refresh token was sent
    lost,      \* credentials whose successor is not on disk
    fresh,     \* credentials with more than five minutes left
    ended,     \* actors whose context has ended
    pc,        \* per actor: the place
    value,     \* per actor: the credential it works with
    view,      \* per actor: FileStore.read's result between read and rename
    mutex,     \* per process: who holds FileStore.mu, or "nobody"
    flight,    \* TokenSource.flight: its leader, or "nobody"
    joined,    \* per caller: the leader it waits for
    result,    \* per caller: a credential, Error, or 0
    command,   \* what the other process runs, "none" at first
    callback,  \* BrowserLogin: the first callback, "none", "code" or "bad"
    listening  \* BrowserLogin's callback server runs

issuer == <<issued, accepted, used>>
store == <<file, stored, view, mutex>>
browser == <<command, callback, listening>>
vars == <<issuer, store, lost, fresh, ended, pc, value, flight, joined, result, browser>>

Init ==
    /\ file = [n \in Names |-> IF n = "chatgpt" THEN 1 ELSE 0]
    /\ stored = {1} /\ issued = 1 /\ accepted = {1} /\ lost = {} /\ fresh = {} /\ ended = {}
    /\ used = [n \in 1..MaxIssued |-> 0]
    /\ pc = [a \in Actors |-> "start"] /\ value = [a \in Actors |-> 0]
    /\ view = [a \in Actors |-> Empty]
    /\ mutex = [p \in {"app", "cli"} |-> "nobody"]
    /\ flight = "nobody" /\ joined = [c \in Callers |-> "nobody"]
    /\ result = [c \in Callers |-> 0] /\ callback = "none" /\ listening = FALSE
    /\ command = "none"

Go(a, place) == pc' = [pc EXCEPT ![a] = place]
Return(c, what) == Go(c, "done") /\ result' = [result EXCEPT ![c] = what]
Free(a) == mutex[Process(a)] = "nobody"

\* The contexts of callers end with the turns that use them; credentials age.
End(a) ==
    /\ a \notin ended /\ ended' = ended \cup {a}
    /\ UNCHANGED <<issuer, store, lost, fresh, pc, value, flight, joined, result, browser>>

Age(n) ==
    /\ n \in fresh /\ fresh' = fresh \ {n}
    /\ UNCHANGED <<issuer, store, lost, ended, pc, value, flight, joined, result, browser>>

-----------------------------------------------------------------------------
(* TokenSource.Token.                                                      *)

\* What the file says of the credential: an error, a usable one, or an old one.
Get(c) ==
    /\ pc[c] = "start" /\ Free(c)
    /\ value' = [value EXCEPT ![c] = file["chatgpt"]]
    /\ IF c \in ended \/ file["chatgpt"] = 0 THEN Return(c, Error)
       ELSE IF file["chatgpt"] \in fresh THEN Return(c, file["chatgpt"])
       ELSE Go(c, "elect") /\ UNCHANGED result
    /\ UNCHANGED <<issuer, store, lost, fresh, ended, flight, joined, browser>>

Latest(c) == file["chatgpt"]

\* A caller joins the refresh under way, or reads the file again and leads one.
Elect(c) ==
    /\ pc[c] = "elect"
    /\ IF flight # "nobody"
       THEN /\ joined' = [joined EXCEPT ![c] = flight] /\ Go(c, "follow")
            /\ UNCHANGED <<flight, value, result>>
       ELSE /\ Free(c) /\ UNCHANGED joined
            /\ IF c \in ended \/ Latest(c) = 0
               THEN Return(c, Error) /\ UNCHANGED <<flight, value>>
               ELSE IF Latest(c) \in fresh THEN Return(c, Latest(c)) /\ UNCHANGED <<flight, value>>
               ELSE /\ flight' = c /\ value' = [value EXCEPT ![c] = Latest(c)]
                    /\ Go(c, "refresh") /\ UNCHANGED result
    /\ UNCHANGED <<issuer, store, lost, fresh, ended, browser>>

\* A follower gets what the leader got, also when that is the leader's own end.
Follow(c) ==
    /\ pc[c] = "follow"
    /\ \/ c \in ended /\ Return(c, Error)
       \/ pc[joined[c]] = "done" /\ Return(c, result[joined[c]])
    /\ UNCHANGED <<issuer, store, lost, fresh, ended, value, flight, joined, browser>>

\* The issuer rotates the token; its answer may get lost.  A token it has seen
\* before is rejected.
Issue ==
    /\ issued < MaxIssued /\ issued' = issued + 1
    /\ fresh' = fresh \cup {issued + 1}

Refresh(c) ==
    /\ pc[c] = "refresh"
    /\ \/ /\ value[c] \in accepted /\ Issue
          /\ accepted' = (accepted \ {value[c]}) \cup {issued + 1}
          /\ used' = [used EXCEPT ![value[c]] = @ + 1]
          /\ \/ /\ value' = [value EXCEPT ![c] = issued + 1] /\ Go(c, "write")
                /\ UNCHANGED lost
             \/ Go(c, "fail") /\ lost' = lost \cup {value[c]} /\ UNCHANGED value
       \/ /\ value[c] \notin accepted /\ Go(c, "fail")
          /\ used' = [used EXCEPT ![value[c]] = @ + 1]
          /\ UNCHANGED <<issued, accepted, value, fresh, lost>>
       \/ Go(c, "fail") /\ UNCHANGED <<issuer, value, fresh, lost>>
    /\ UNCHANGED <<store, ended, flight, joined, result, browser>>

\* The flight is over when the credential is on disk, or could not be put there.
Published_Early(c) == pc[c] \in {"fail", "write", "written"}
Published(c) == pc[c] \in {"fail", "written"}

Publish(c) ==
    /\ c \in Callers /\ Published(c)
    /\ flight' = "nobody"
    /\ Return(c, IF pc[c] = "fail" THEN Error ELSE value[c])
    /\ UNCHANGED <<issuer, store, lost, fresh, ended, value, joined, browser>>

-----------------------------------------------------------------------------
(* FileStore.Put and FileStore.Delete: the whole file is read and replaced *)
(* under a mutex of the process.                                           *)

Entry(a) == IF a = "cli" /\ command = "key" THEN "other" ELSE "chatgpt"

\* The predecessor of a credential that is not stored is all that remains.
Unstored(a) == IF a \in Callers THEN {file["chatgpt"]} ELSE {}

ReadFile(a) ==
    /\ pc[a] = "write" /\ Free(a)
    /\ \/ /\ a \notin ended
          /\ mutex' = [mutex EXCEPT ![Process(a)] = a]
          /\ view' = [view EXCEPT ![a] = file] /\ Go(a, "rename") /\ UNCHANGED lost
       \/ Go(a, "fail") /\ lost' = lost \cup Unstored(a) /\ UNCHANGED <<mutex, view>>
    /\ UNCHANGED <<issuer, file, stored, fresh, ended, value, flight, joined, result, browser>>

\* What another process wrote since the read is overwritten.  The replacement
\* may be in place and still be reported as a failure.
Rename(a) ==
    /\ pc[a] = "rename"
    /\ mutex' = [mutex EXCEPT ![Process(a)] = "nobody"]
    /\ \/ /\ file' = [view[a] EXCEPT ![Entry(a)] = value[a]]
          /\ stored' = stored \cup {file'["chatgpt"]}
          /\ lost' = IF Entry(a) = "other" /\ view[a]["chatgpt"] # file["chatgpt"]
                     THEN lost \cup {view[a]["chatgpt"]} ELSE lost
          /\ Go(a, "written") \/ Go(a, "fail")
       \/ /\ Go(a, "fail") /\ lost' = lost \cup Unstored(a)
          /\ UNCHANGED <<file, stored>>
    /\ view' = [view EXCEPT ![a] = Empty]
    /\ UNCHANGED <<issuer, fresh, ended, value, flight, joined, result, browser>>

-----------------------------------------------------------------------------
(* Commands of the other process.                                          *)

\* A logout deletes the entry; a key is stored under another name.
Command(what) ==
    /\ pc["cli"] = "start" /\ what # "login" /\ command' = what /\ Go("cli", "write")
    /\ value' = [value EXCEPT !["cli"] = IF what = "key" THEN 1 ELSE 0]
    /\ UNCHANGED <<issuer, store, lost, fresh, ended, flight, joined, result, callback, listening>>

\* BrowserLogin listens before it opens the browser; the first callback decides.
Listen ==
    /\ pc["cli"] = "start" /\ command' = "login"
    /\ listening' = TRUE /\ Go("cli", "callback")
    /\ UNCHANGED <<issuer, store, lost, fresh, ended, value, flight, joined, result, callback>>

Callback ==
    /\ listening /\ callback = "none" /\ callback' \in {"code", "bad"}
    /\ UNCHANGED <<issuer, store, lost, fresh, ended, pc, value, flight, joined, result, command,
                   listening>>

Granted ==
    /\ "cli" \notin ended /\ Issue /\ accepted' = accepted \cup {issued + 1}
    /\ value' = [value EXCEPT !["cli"] = issued + 1] /\ Go("cli", "write")

\* The code is exchanged while the server still runs; the login returns with the
\* server closed.
Exchange ==
    /\ pc["cli"] = "callback" /\ callback = "code" /\ Granted /\ listening' = FALSE
    /\ UNCHANGED <<used, store, lost, ended, flight, joined, result, command, callback>>

LoginFails ==
    /\ pc["cli"] = "callback" /\ listening' = FALSE /\ Go("cli", "fail")
    /\ UNCHANGED <<issuer, store, lost, fresh, ended, value, flight, joined, result, command,
                   callback>>

\* AwaitDeviceAuthorization polls instead of listening.
Poll ==
    /\ pc["cli"] = "start" /\ command' = "login"
    /\ Granted \/ (Go("cli", "fail") /\ UNCHANGED <<issued, accepted, value, fresh>>)
    /\ UNCHANGED <<used, store, lost, ended, flight, joined, result, callback, listening>>

Next ==
    \/ \E c \in Callers : Get(c) \/ Elect(c) \/ Follow(c) \/ Refresh(c) \/ Publish(c)
    \/ \E a \in Actors : End(a) \/ ReadFile(a) \/ Rename(a)
    \/ \E n \in 1..MaxIssued : Age(n)
    \/ \E what \in Commands : Command(what)
    \/ Listen \/ Callback \/ Exchange \/ LoginFails \/ Poll

Spec == Init /\ [][Next]_vars

-----------------------------------------------------------------------------
TypeOK ==
    /\ file \in [Names -> 0..MaxIssued] /\ issued \in 1..MaxIssued
    /\ accepted \subseteq 1..issued /\ fresh \subseteq 1..issued
    /\ result \in [Callers -> Error..MaxIssued]
    /\ \A p \in DOMAIN mutex : mutex[p] # "nobody" => pc[mutex[p]] = "rename"

\* "A rotated refresh token is atomically persisted before the result is
\* returned": no caller holds a credential the file has not held.
PersistedFirst == \A c \in Callers : result[c] > 0 => result[c] \in stored

\* A refresh token is sent once, however many callers see it expire; only a
\* rotation that could not be recorded, or that another process has overwritten,
\* brings it back.
RefreshedOnce == \A n \in 1..MaxIssued : used[n] > 1 => n \in lost

\* Nobody listens for a login that is over.
ListenerClosed == pc["cli"] # "callback" => ~listening

\* Credentials are refreshed once and handed out when they are stored
\* (TokenSource.Token, FileStore.Put).
CredentialsKept == PersistedFirst /\ RefreshedOnce /\ ListenerClosed
=============================================================================
