--------------------------- MODULE TokenProvisioning ---------------------------
(***************************************************************************)
(* How a token gets from a device to the token file: processes of the      *)
(* command-line tool ask a device for a token over USB or over WiFi, a     *)
(* WiFi token is verified with a bounded number of attempts                *)
(* (main.rs), and TokenStore::save_token loads the file, upserts and       *)
(* writes it in place (token_store.rs).  Nothing locks the file; any       *)
(* process may fail or be killed at any point.                             *)
(*                                                                         *)
(* A token is its host and the number of its key.                          *)
(***************************************************************************)
EXTENDS Naturals, FiniteSets

CONSTANTS
  Clients,      \* processes
  TokenHosts,   \* devices
  MaxKeys,      \* bound on the keys any two devices make
  MaxAttempts   \* WIFI_TOKEN_VERIFY_ATTEMPTS

ASSUME TokenProvisioningAssumption ==
  TokenHosts # {} /\ MaxKeys \in Nat /\ MaxAttempts \in Nat \ {0}

VARIABLES
  tokenFile,   \* what is on disk: no file, a file serde_json refuses, or tokens
  client,      \* [Clients -> where each process is and what it holds]
  made,        \* [TokenHosts -> the last key each device made]
  accepted,    \* [TokenHosts -> the last key it lets in]
  lastSaved,   \* history: [TokenHosts -> the key last saved, 0 if none]
  fromUsb,     \* history: the tokens that came over USB and are not verified
  disturbed    \* history: saves overlapped, or one was cut short

tokenVars == <<tokenFile, client, made, accepted, lastSaved, fromUsb, disturbed>>

Keys == 0 .. MaxKeys
Stores == [TokenHosts -> Keys]    \* 0: no token of that host
NoTokens == [h \in TokenHosts |-> 0]

Files == [kind : {"missing", "torn"}, tokens : {NoTokens}] \cup [kind : {"store"}, tokens : Stores]

Out == [at |-> "out", via |-> "usb", host |-> CHOOSE h \in TokenHosts : TRUE,
        key |-> 0, attempt |-> 0, store |-> NoTokens]

TokenTypeOK ==
  /\ tokenFile \in Files
  /\ client \in [Clients -> [at : {"out", "asking", "verifying", "saving", "loaded", "truncated"},
                             via : {"usb", "wifi"}, host : TokenHosts, key : Keys,
                             attempt : 0 .. MaxAttempts, store : Stores]]
  /\ made \in Stores /\ accepted \in Stores /\ lastSaved \in Stores
  /\ \A h \in TokenHosts : accepted[h] <= made[h] /\ lastSaved[h] <= made[h]
  /\ fromUsb \subseteq TokenHosts \X Keys
  /\ disturbed \in BOOLEAN

TokenInit ==
  /\ tokenFile = [kind |-> "missing", tokens |-> NoTokens]
  /\ client = [c \in Clients |-> Out]
  /\ made = NoTokens /\ accepted = NoTokens /\ lastSaved = NoTokens
  /\ fromUsb = {} /\ disturbed = FALSE

(***************************************************************************)
(* Asking a device                                                         *)
(***************************************************************************)

\* `runtime token` over USB, `wifi generate-token` over WiFi.
Ask(c) ==
  /\ client[c] = Out
  /\ \E h \in TokenHosts, via \in {"usb", "wifi"} :
       client' = [client EXCEPT ![c].at = "asking", ![c].via = via, ![c].host = h]
  /\ UNCHANGED <<tokenFile, made, accepted, lastSaved, fromUsb, disturbed>>

MakeKey(h) ==
  /\ made[h] < MaxKeys /\ \A g \in TokenHosts \ {h} : made[g] + made[h] < MaxKeys
  /\ made' = [made EXCEPT ![h] = @ + 1]

\* TokenGenerated arrives, possibly after approval instructions.  A token
\* that came over USB is saved at once.
TokenGenerated(c) ==
  LET h == client[c].host  usb == client[c].via = "usb" IN
    /\ client[c].at = "asking" /\ MakeKey(h)
    /\ client' = [client EXCEPT ![c].at = IF usb THEN "saving" ELSE "verifying",
                                ![c].key = made'[h], ![c].attempt = IF usb THEN 0 ELSE 1]
    /\ fromUsb' = IF usb THEN fromUsb \cup {<<h, made'[h]>>} ELSE fromUsb
    /\ UNCHANGED <<tokenFile, accepted, lastSaved, disturbed>>

\* An error, a refusal, another frame, a timeout: a device that answers too
\* late has made its key for nobody.
GenerateFails(c) ==
  /\ client[c].at = "asking"
  /\ MakeKey(client[c].host) \/ UNCHANGED made
  /\ client' = [client EXCEPT ![c] = Out]
  /\ UNCHANGED <<tokenFile, accepted, lastSaved, fromUsb, disturbed>>

\* The device lets the key in some time after it made it.
AcceptKey(h) ==
  /\ accepted[h] < made[h]
  /\ accepted' = [accepted EXCEPT ![h] = made[h]]
  /\ UNCHANGED <<tokenFile, client, made, lastSaved, fromUsb, disturbed>>

(***************************************************************************)
(* verify_wifi_token_from_discovered_device                                *)
(***************************************************************************)

Verified(c) ==
  /\ client[c].at = "verifying" /\ client[c].key <= accepted[client[c].host]
  /\ client' = [client EXCEPT ![c].at = "saving", ![c].attempt = 0]
  /\ UNCHANGED <<tokenFile, made, accepted, lastSaved, fromUsb, disturbed>>

\* Mutant: the error of the last attempt is dropped.
AfterLastAttemptSaves(c) == [client[c] EXCEPT !.at = "saving"]

AfterLastAttempt(c) == Out

\* connect, the host query or disconnect failed.
AttemptFails(c) ==
  /\ client[c].at = "verifying"
  /\ client' = [client EXCEPT ![c] = IF client[c].attempt < MaxAttempts
                                     THEN [client[c] EXCEPT !.attempt = @ + 1]
                                     ELSE AfterLastAttempt(c)]
  /\ UNCHANGED <<tokenFile, made, accepted, lastSaved, fromUsb, disturbed>>

(***************************************************************************)
(* TokenStore::save_token                                                  *)
(***************************************************************************)

\* Mutant: an entry of the same host is kept.
UpsertIfAbsent(store, h, key) == IF store[h] # 0 THEN store ELSE [store EXCEPT ![h] = key]

Upsert(store, h, key) == [store EXCEPT ![h] = key]

InSave(c) == client[c].at \in {"loaded", "truncated"}

\* A missing file is an empty store; an unreadable one ends the process.
Load(c) ==
  /\ client[c].at = "saving"
  /\ client' = [client EXCEPT ![c] =
       IF tokenFile.kind = "torn" THEN Out
       ELSE [client[c] EXCEPT !.at = "loaded",
                              !.store = Upsert(tokenFile.tokens, client[c].host, client[c].key)]]
  /\ disturbed' = (disturbed \/ (tokenFile.kind # "torn" /\ \E d \in Clients : InSave(d)))
  /\ UNCHANGED <<tokenFile, made, accepted, lastSaved, fromUsb>>

\* File has neither text nor tokens while it is truncated.
Torn == [kind |-> "torn", tokens |-> NoTokens]

Truncate(c) ==
  /\ client[c].at = "loaded"
  /\ client' = [client EXCEPT ![c].at = "truncated"]
  /\ tokenFile' = Torn
  /\ UNCHANGED <<made, accepted, lastSaved, fromUsb, disturbed>>

Size(store) == Cardinality({h \in TokenHosts : store[h] # 0})

\* Written from its start over what another process wrote meanwhile, of
\* which the end may remain.
WriteAll(c) ==
  LET p == client[c] IN
    /\ p.at = "truncated"
    /\ tokenFile' = IF tokenFile.kind = "store" /\ Size(tokenFile.tokens) > Size(p.store)
                    THEN Torn ELSE [kind |-> "store", tokens |-> p.store]
    /\ lastSaved' = [lastSaved EXCEPT ![p.host] = p.key]
    /\ client' = [client EXCEPT ![c] = Out]
    /\ UNCHANGED <<made, accepted, fromUsb, disturbed>>

\* The process is killed or an I/O call fails; in write_all, part of the text
\* has been written.
ProcessEnds(c) ==
  /\ client[c].at # "out"
  /\ client' = [client EXCEPT ![c] = Out]
  /\ IF client[c].at = "truncated" THEN tokenFile' = Torn /\ disturbed' = TRUE
                                   ELSE UNCHANGED <<tokenFile, disturbed>>
  /\ UNCHANGED <<made, accepted, lastSaved, fromUsb>>

TokenNext ==
  \/ \E c \in Clients : \/ Ask(c) \/ TokenGenerated(c) \/ GenerateFails(c)
                        \/ Verified(c) \/ AttemptFails(c)
                        \/ Load(c) \/ Truncate(c) \/ WriteAll(c) \/ ProcessEnds(c)
  \/ \E h \in TokenHosts : AcceptKey(h)

TokenSpec == TokenInit /\ [][TokenNext]_tokenVars

(***************************************************************************)
(* Properties                                                              *)
(***************************************************************************)

\* As long as no two saves overlapped and none was cut short while it wrote,
\* the file holds the last token saved for every host, whoever saved it, and
\* can be read except while it is being written (save_token, 88-134).
TokensAreKept ==
  ~disturbed =>
    \/ \E c \in Clients : client[c].at = "truncated" /\ tokenFile = Torn
    \/ tokenFile.kind # "torn" /\ tokenFile.tokens = lastSaved

\* A token in the file that did not come over USB opens a connection: however
\* late the device lets its key in and however many attempts failed, no
\* unverified WiFi token is stored (main.rs, 1171-1220).
StoredWifiTokensWork ==
  \A h \in TokenHosts :
    LET key == tokenFile.tokens[h] IN key = 0 \/ <<h, key>> \in fromUsb \/ key <= accepted[h]
================================================================================
