------------------------- MODULE ProvisioningProofs ----------------------------
(***************************************************************************)
(* Provisioning.  Tokens: none is stored that does not work, and saves that *)
(* do not overlap lose nothing, whatever the number of processes, devices, *)
(* keys and attempts.  Firmware: what an update writes to a board and what *)
(* "verified" says, for any boards, listings of ports, payloads and rounds. *)
(***************************************************************************)
EXTENDS TokenProvisioning, FirmwareUpdate, SequenceTheorems, TLAPS

NatStores == [TokenHosts -> Nat]

\* What the proofs need of types: how many keys there are does not matter.
Shapes ==
  /\ tokenFile \in [kind : {"missing", "torn", "store"}, tokens : NatStores]
  /\ client \in [Clients -> [at : {"out", "asking", "verifying", "saving", "loaded", "truncated"},
                             via : {"usb", "wifi"}, host : TokenHosts, key : Nat,
                             attempt : Nat, store : NatStores]]
  /\ made \in NatStores /\ accepted \in NatStores /\ lastSaved \in NatStores

\* The file and every store about to replace it hold good tokens; so does a
\* process that is past the verification.
Good(h, key) == key = 0 \/ <<h, key>> \in fromUsb \/ key <= accepted[h]

GoodFile == \A h \in TokenHosts : Good(h, tokenFile.tokens[h])

GoodClient(c) ==
  /\ client[c].at \in {"saving", "loaded", "truncated"} => Good(client[c].host, client[c].key)
  /\ InSave(c) => \A h \in TokenHosts : Good(h, client[c].store[h])

GoodClients == \A c \in Clients : GoodClient(c)

GoodInv == Shapes /\ GoodFile /\ GoodClients

\* A process that is out and a file without tokens have these shapes.
LEMMA OutShape ==
  /\ NoTokens \in NatStores
  /\ Out \in [at : {"out", "asking", "verifying", "saving", "loaded", "truncated"},
              via : {"usb", "wifi"}, host : TokenHosts, key : Nat, attempt : Nat, store : NatStores]
  /\ Out.at = "out" /\ Torn \in [kind : {"torn"}, tokens : NatStores]
  /\ Torn.tokens = NoTokens
BY TokenProvisioningAssumption DEF NoTokens, NatStores, Out, Torn

\* At first there are no tokens.
LEMMA TokenGoodInit == TokenInit => GoodInv
<1>. SUFFICES ASSUME TokenInit PROVE GoodInv
  OBVIOUS
<1>1. Shapes
  BY OutShape DEF TokenInit, Shapes
<1>2. GoodFile
  BY DEF TokenInit, GoodFile, Good, NoTokens
<1>3. GoodClients
  BY OutShape DEF TokenInit, GoodClients, GoodClient, InSave
<1>. QED  BY <1>1, <1>2, <1>3 DEF GoodInv

\* Every step keeps the shapes.
LEMMA ShapesStep == Shapes /\ [TokenNext]_tokenVars => Shapes'
<1>. SUFFICES ASSUME Shapes, [TokenNext]_tokenVars PROVE Shapes'
  OBVIOUS
<1>. USE OutShape, TokenProvisioningAssumption DEF Shapes
<1>1. ASSUME NEW c \in Clients, Ask(c) PROVE Shapes'
  <2>1. PICK h \in TokenHosts, via \in {"usb", "wifi"} :
             client' = [client EXCEPT ![c].at = "asking", ![c].via = via, ![c].host = h]
    BY <1>1 DEF Ask
  <2>. QED  BY <1>1, <2>1 DEF Ask
<1>2. ASSUME NEW c \in Clients, TokenGenerated(c) PROVE Shapes'
  <2>1. made' \in NatStores
    BY <1>2 DEF TokenGenerated, MakeKey, NatStores
  <2>2. client[c].host \in TokenHosts
    OBVIOUS
  <2>3. made'[client[c].host] \in Nat
    BY <2>1, <2>2 DEF NatStores
  <2>4. ASSUME NEW at \in {"saving", "verifying"}, NEW key \in Nat, NEW attempt \in Nat
        PROVE  [client EXCEPT ![c].at = at, ![c].key = key, ![c].attempt = attempt]
                 \in [Clients -> [at : {"out", "asking", "verifying", "saving", "loaded", "truncated"},
                                  via : {"usb", "wifi"}, host : TokenHosts, key : Nat,
                                  attempt : Nat, store : NatStores]]
    OBVIOUS
  <2>5. PICK at \in {"saving", "verifying"}, attempt \in Nat :
          client' = [client EXCEPT ![c].at = at, ![c].key = made'[client[c].host],
                                   ![c].attempt = attempt]
    <3>1. CASE client[c].via = "usb"
      <4>1. client' = [client EXCEPT ![c].at = "saving", ![c].key = made'[client[c].host],
                                     ![c].attempt = 0]
        BY <1>2, <3>1 DEF TokenGenerated
      <4>. QED  BY <4>1
    <3>2. CASE client[c].via # "usb"
      <4>1. client' = [client EXCEPT ![c].at = "verifying", ![c].key = made'[client[c].host],
                                     ![c].attempt = 1]
        BY <1>2, <3>2 DEF TokenGenerated
      <4>. QED  BY <4>1
    <3>. QED  BY <3>1, <3>2
  <2>6. UNCHANGED <<tokenFile, accepted, lastSaved>>
    BY <1>2 DEF TokenGenerated
  <2>. HIDE TokenProvisioningAssumption, OutShape
  <2>. QED  BY <2>1, <2>3, <2>4, <2>5, <2>6
<1>3. ASSUME NEW c \in Clients, GenerateFails(c) PROVE Shapes'
  BY <1>3 DEF GenerateFails, MakeKey, NatStores
<1>4. ASSUME NEW c \in Clients, Verified(c) PROVE Shapes'
  BY <1>4 DEF Verified
<1>5. ASSUME NEW c \in Clients, AttemptFails(c) PROVE Shapes'
  BY <1>5 DEF AttemptFails, AfterLastAttempt
<1>6. ASSUME NEW c \in Clients, Load(c) PROVE Shapes'
  <2>1. Upsert(tokenFile.tokens, client[c].host, client[c].key) \in NatStores
    BY DEF Upsert, NatStores
  <2>. QED  BY <1>6, <2>1 DEF Load
<1>7. ASSUME NEW c \in Clients, Truncate(c) PROVE Shapes'
  BY <1>7 DEF Truncate
<1>8. ASSUME NEW c \in Clients, WriteAll(c) PROVE Shapes'
  <2>1. lastSaved' \in NatStores
    BY <1>8 DEF WriteAll, NatStores
  <2>. QED  BY <1>8, <2>1 DEF WriteAll
<1>9. ASSUME NEW c \in Clients, ProcessEnds(c) PROVE Shapes'
  BY <1>9 DEF ProcessEnds
<1>10. ASSUME NEW h \in TokenHosts, AcceptKey(h) PROVE Shapes'
  BY <1>10 DEF AcceptKey, NatStores
<1>11. CASE UNCHANGED tokenVars
  BY <1>11 DEF tokenVars
<1>. QED  BY <1>1, <1>2, <1>3, <1>4, <1>5, <1>6, <1>7, <1>8, <1>9, <1>10, <1>11 DEF TokenNext

\* What was good stays good: keys are only ever let in, and what came over USB
\* stays known.
LEMMA GoodStays ==
  ASSUME Shapes, [TokenNext]_tokenVars, NEW h \in TokenHosts, NEW key \in Nat, Good(h, key)
  PROVE  Good(h, key)'
<1>1. fromUsb \subseteq fromUsb'
  BY DEF TokenNext, tokenVars, Ask, TokenGenerated, GenerateFails, Verified, AttemptFails, Load,
         Truncate, WriteAll, ProcessEnds, AcceptKey
<1>2. accepted[h] <= accepted'[h]
  <2>1. CASE UNCHANGED accepted
    BY <2>1 DEF Shapes, NatStores
  <2>2. ASSUME NEW g \in TokenHosts, AcceptKey(g) PROVE accepted[h] <= accepted'[h]
    BY <2>2 DEF AcceptKey, Shapes, NatStores
  <2>. QED  BY <2>1, <2>2
            DEF TokenNext, tokenVars, Ask, TokenGenerated, GenerateFails, Verified, AttemptFails,
                Load, Truncate, WriteAll, ProcessEnds
<1>3. accepted[h] \in Nat /\ accepted'[h] \in Nat
  BY ShapesStep DEF Shapes, NatStores
<1>. QED  BY <1>1, <1>2, <1>3 DEF Good

\* A token becomes good before it is saved, and only good tokens are written.
LEMMA TokenGoodStep == GoodInv /\ [TokenNext]_tokenVars => GoodInv'
<1>. SUFFICES ASSUME GoodInv, [TokenNext]_tokenVars PROVE GoodInv'
  OBVIOUS
<1>1. Shapes /\ Shapes'
  BY ShapesStep DEF GoodInv
<1>2. ASSUME NEW h \in TokenHosts PROVE Good(h, tokenFile.tokens[h])'
  <2>0. GoodFile /\ tokenFile.tokens[h] \in Nat
    BY <1>1 DEF GoodInv, Shapes, NatStores
  <2>1. CASE tokenFile' = tokenFile
    <3>1. Good(h, tokenFile.tokens[h])
      BY <2>0 DEF GoodFile
    <3>2. fromUsb \subseteq fromUsb' /\ accepted'[h] \in Nat /\ accepted[h] \in Nat
      BY <1>1 DEF TokenNext, tokenVars, Ask, TokenGenerated, GenerateFails, Verified, AttemptFails, Load,
         Truncate, WriteAll, ProcessEnds, AcceptKey, Shapes, NatStores
    <3>3. ASSUME NEW k \in Nat, k = tokenFile.tokens[h] PROVE Good(h, k)'
      BY <1>1, <3>1, <3>3, GoodStays
    <3>. QED  BY <2>0, <2>1, <3>3 DEF Good
  <2>2. CASE tokenFile' = Torn
    BY <2>2, OutShape DEF Good, NoTokens
  <2>3. ASSUME NEW c \in Clients, WriteAll(c), tokenFile' # Torn
        PROVE  Good(h, tokenFile.tokens[h])'
    <3>1. tokenFile'.tokens = client[c].store /\ InSave(c)
      BY <2>3 DEF WriteAll, InSave
    <3>2. client[c].store[h] \in Nat /\ Good(h, client[c].store[h])
      BY <1>1, <3>1 DEF GoodInv, GoodClients, GoodClient, Shapes, NatStores
    <3>3. ASSUME NEW k \in Nat, k = client[c].store[h] PROVE Good(h, k)'
      BY <1>1, <3>2, <3>3, GoodStays
    <3>. QED  BY <3>1, <3>2, <3>3 DEF Good
  <2>. QED  BY <2>1, <2>2, <2>3
            DEF TokenNext, tokenVars, Ask, TokenGenerated, GenerateFails, Verified, AttemptFails,
                Load, Truncate, WriteAll, ProcessEnds, AcceptKey
<1>3. ASSUME NEW c \in Clients PROVE GoodClient(c)'
  <2>1. CASE client'[c] = client[c]
    <3>1. client[c].key \in Nat /\ client[c].host \in TokenHosts
          /\ \A h \in TokenHosts : client[c].store[h] \in Nat
      BY <1>1 DEF Shapes, NatStores
    <3>2. ASSUME NEW h \in TokenHosts, NEW k \in Nat, Good(h, k) PROVE Good(h, k)'
      BY <1>1, <3>2, GoodStays
    <3>3. GoodClient(c)
      BY DEF GoodInv, GoodClients
    <3>. QED  BY <2>1, <3>1, <3>2, <3>3 DEF GoodClient, InSave, Good
  <2>2. CASE client'[c].at \in {"out", "asking", "verifying"}
    BY <2>2 DEF GoodClient, InSave
  <2>3. CASE TokenGenerated(c) /\ client'[c].at = "saving"
    <3>1. /\ client'[c].host = client[c].host /\ client'[c].key = made'[client[c].host]
          /\ client[c].via = "usb"
      BY <1>1, <2>3 DEF TokenGenerated, Shapes
    <3>2. Good(client[c].host, client[c].key)'
      BY <2>3, <3>1 DEF TokenGenerated, Good
    <3>. QED  BY <2>3, <3>2 DEF GoodClient, InSave
  <2>4. CASE Verified(c)
    <3>1. /\ client'[c].host = client[c].host /\ client'[c].key = client[c].key
          /\ client'[c].at = "saving" /\ accepted' = accepted
      BY <1>1, <2>4 DEF Verified, Shapes
    <3>. QED  BY <2>4, <3>1 DEF Verified, GoodClient, Good, InSave
  <2>5. CASE Load(c) /\ client'[c].at = "loaded"
    <3>1. /\ client'[c].host = client[c].host /\ client'[c].key = client[c].key
          /\ client[c].at = "saving" /\ fromUsb' = fromUsb /\ accepted' = accepted
          /\ client'[c].store = Upsert(tokenFile.tokens, client[c].host, client[c].key)
      BY <1>1, <2>5, OutShape DEF Load, Shapes
    <3>2. Good(client[c].host, client[c].key) /\ client[c].host \in TokenHosts
      BY <1>1, <3>1 DEF GoodInv, GoodClients, GoodClient, Shapes
    <3>3. \A h \in TokenHosts : client'[c].store[h] \in {tokenFile.tokens[h], client[c].key}
          /\ (h # client[c].host => client'[c].store[h] = tokenFile.tokens[h])
      BY <1>1, <3>1 DEF Upsert, Shapes, NatStores
    <3>4. \A h \in TokenHosts : Good(h, tokenFile.tokens[h])
      BY DEF GoodInv, GoodFile
    <3>. QED  BY <3>1, <3>2, <3>3, <3>4 DEF GoodClient, Good, InSave
  <2>6. CASE Truncate(c)
    <3>1. /\ client'[c].host = client[c].host /\ client'[c].key = client[c].key
          /\ client[c].at = "loaded" /\ client'[c].store = client[c].store
          /\ fromUsb' = fromUsb /\ accepted' = accepted
      BY <1>1, <2>6 DEF Truncate, Shapes
    <3>2. GoodClient(c)
      BY DEF GoodInv, GoodClients
    <3>. QED  BY <3>1, <3>2 DEF GoodClient, Good, InSave
  <2>7. ASSUME NEW d \in Clients, Ask(d) PROVE GoodClient(c)'
    BY <1>1, <2>1, <2>2, <2>7 DEF Ask, Shapes
  <2>8. ASSUME NEW d \in Clients, TokenGenerated(d) PROVE GoodClient(c)'
    BY <1>1, <2>1, <2>2, <2>3, <2>8 DEF TokenGenerated, Shapes
  <2>9. ASSUME NEW d \in Clients, AttemptFails(d) PROVE GoodClient(c)'
    BY <1>1, <2>1, <2>2, <2>9, OutShape DEF AttemptFails, AfterLastAttempt, Shapes
  <2>10. ASSUME NEW d \in Clients, Verified(d) PROVE GoodClient(c)'
    BY <1>1, <2>1, <2>4, <2>10 DEF Verified, Shapes
  <2>11. ASSUME NEW d \in Clients, Load(d) PROVE GoodClient(c)'
    <3>1. CASE d = c /\ tokenFile.kind # "torn"
      <4>1. client'[c].at = "loaded"
        BY <1>1, <2>11, <3>1 DEF Load, Shapes
      <4>. QED  BY <2>5, <2>11, <3>1, <4>1
    <3>2. CASE d = c /\ tokenFile.kind = "torn"
      BY <1>1, <2>2, <2>11, <3>2, OutShape DEF Load, Shapes
    <3>3. CASE d # c
      BY <1>1, <2>1, <2>11, <3>3 DEF Load, Shapes
    <3>. QED  BY <3>1, <3>2, <3>3
  <2>12. ASSUME NEW d \in Clients, Truncate(d) PROVE GoodClient(c)'
    BY <1>1, <2>1, <2>6, <2>12 DEF Truncate, Shapes
  <2>13. ASSUME NEW d \in Clients, GenerateFails(d) \/ WriteAll(d) \/ ProcessEnds(d)
         PROVE  GoodClient(c)'
    BY <1>1, <2>1, <2>2, <2>13, OutShape DEF GenerateFails, WriteAll, ProcessEnds, Shapes
  <2>14. CASE UNCHANGED client
    BY <2>1, <2>14
  <2>. QED  BY <2>7, <2>8, <2>9, <2>10, <2>11, <2>12, <2>13, <2>14
            DEF TokenNext, tokenVars, AcceptKey
<1>. QED  BY <1>1, <1>2, <1>3 DEF GoodInv, GoodFile, GoodClients

\* Main result: a token in the file that did not come over USB is one the
\* device lets in (main.rs, 1171-1220).
THEOREM StoredTokensWork == TokenSpec => []StoredWifiTokensWork
<1>1. GoodInv => StoredWifiTokensWork
  BY DEF GoodInv, GoodFile, Good, StoredWifiTokensWork
<1>. QED  BY TokenGoodInit, TokenGoodStep, <1>1, PTL DEF TokenSpec

(***************************************************************************)
(* What is kept                                                            *)
(***************************************************************************)

\* As long as saves have not overlapped, one process at most is saving; the
\* store it holds is what was saved with its own token put in, and the file is
\* what was saved until it truncates it.
OneSaver == \A c, d \in Clients : InSave(c) /\ InSave(d) => c = d

SaverHasAll ==
  \A c \in Clients :
    InSave(c) => client[c].store = [lastSaved EXCEPT ![client[c].host] = client[c].key]

FileIsSaved ==
  \/ \E c \in Clients : client[c].at = "truncated" /\ tokenFile = Torn
  \/ /\ tokenFile.kind # "torn" /\ tokenFile.tokens = lastSaved
     /\ \A c \in Clients : client[c].at # "truncated"

KeptInv == Shapes /\ (~disturbed => OneSaver /\ SaverHasAll /\ FileIsSaved)

\* At first there is no file and nothing was saved.
LEMMA KeptInit == TokenInit => KeptInv
BY OutShape DEF TokenInit, KeptInv, Shapes, OneSaver, SaverHasAll, FileIsSaved, InSave, NoTokens, NatStores

\* A step that starts no save and goes on with none keeps what is said of them.
LEMMA NoSaveTouched ==
  ASSUME KeptInv, ~disturbed, UNCHANGED <<tokenFile, lastSaved>>,
         \A c \in Clients : \/ client'[c] = client[c]
                            \/ /\ client'[c].at \notin {"loaded", "truncated"}
                               /\ client[c].at # "truncated"
  PROVE  (OneSaver /\ SaverHasAll /\ FileIsSaved)'
<1>1. \A c \in Clients : InSave(c)' => InSave(c) /\ client'[c] = client[c]
  BY DEF InSave
<1>2. \A c \in Clients : client'[c].at = "truncated" <=> client[c].at = "truncated"
  OBVIOUS
<1>3. OneSaver'
  BY <1>1 DEF KeptInv, OneSaver
<1>4. SaverHasAll'
  BY <1>1 DEF KeptInv, SaverHasAll
<1>5. FileIsSaved'
  BY <1>2 DEF KeptInv, FileIsSaved, Torn, NoTokens
<1>. QED  BY <1>3, <1>4, <1>5

\* Every step keeps them, or marks that saves overlap or one was cut short.
LEMMA KeptStep == KeptInv /\ [TokenNext]_tokenVars => KeptInv'
<1>. SUFFICES ASSUME KeptInv, [TokenNext]_tokenVars, ~disturbed'
              PROVE  (OneSaver /\ SaverHasAll /\ FileIsSaved)'
  BY ShapesStep DEF KeptInv
<1>0. ~disturbed
  BY DEF TokenNext, tokenVars, Ask, TokenGenerated, GenerateFails, Verified, AttemptFails, Load,
         Truncate, WriteAll, ProcessEnds, AcceptKey
<1>1. Shapes /\ OneSaver /\ SaverHasAll /\ FileIsSaved
  BY <1>0 DEF KeptInv
<1>2. ASSUME NEW c \in Clients, Ask(c) \/ TokenGenerated(c)
      PROVE  (OneSaver /\ SaverHasAll /\ FileIsSaved)'
  BY <1>0, <1>1, <1>2, NoSaveTouched, OutShape DEF Ask, TokenGenerated, Shapes
<1>3. ASSUME NEW c \in Clients, GenerateFails(c) \/ Verified(c) \/ AttemptFails(c)
      PROVE  (OneSaver /\ SaverHasAll /\ FileIsSaved)'
  BY <1>0, <1>1, <1>3, NoSaveTouched, OutShape
     DEF GenerateFails, Verified, AttemptFails, AfterLastAttempt, Shapes
<1>4. ASSUME NEW c \in Clients, ProcessEnds(c)
      PROVE  (OneSaver /\ SaverHasAll /\ FileIsSaved)'
  <2>1. client[c].at # "truncated"
    BY <1>4 DEF ProcessEnds
  <2>. QED  BY <1>0, <1>1, <1>4, <2>1, NoSaveTouched, OutShape DEF ProcessEnds, Shapes
<1>5. ASSUME NEW c \in Clients, Load(c)
      PROVE  (OneSaver /\ SaverHasAll /\ FileIsSaved)'
  <2>1. CASE tokenFile.kind = "torn"
    BY <1>0, <1>1, <1>5, <2>1, NoSaveTouched, OutShape DEF Load, Shapes
  <2>2. CASE tokenFile.kind # "torn"
    <3>1. \A d \in Clients : ~InSave(d)
      BY <1>0, <1>5, <2>2 DEF Load
    <3>2. tokenFile.tokens = lastSaved
      BY <1>1, <2>2 DEF FileIsSaved, Torn
    <3>3. /\ client'[c].at = "loaded" /\ client'[c].host = client[c].host
          /\ client'[c].key = client[c].key
          /\ client'[c].store = Upsert(lastSaved, client[c].host, client[c].key)
          /\ \A d \in Clients : d # c => client'[d] = client[d]
          /\ tokenFile' = tokenFile /\ lastSaved' = lastSaved
      BY <1>1, <1>5, <2>2, <3>2 DEF Load, Shapes
    <3>4. OneSaver'
      BY <3>1, <3>3 DEF OneSaver, InSave
    <3>5. SaverHasAll'
      BY <3>1, <3>3 DEF SaverHasAll, InSave, Upsert
    <3>6. FileIsSaved'
      BY <2>2, <3>1, <3>2, <3>3 DEF FileIsSaved, InSave
    <3>. QED  BY <3>4, <3>5, <3>6
  <2>. QED  BY <2>1, <2>2
<1>6. ASSUME NEW c \in Clients, Truncate(c)
      PROVE  (OneSaver /\ SaverHasAll /\ FileIsSaved)'
  <2>1. /\ client'[c].at = "truncated" /\ client'[c].host = client[c].host
        /\ client'[c].key = client[c].key /\ client'[c].store = client[c].store
        /\ \A d \in Clients : d # c => client'[d] = client[d]
        /\ tokenFile' = Torn /\ lastSaved' = lastSaved /\ InSave(c)
    BY <1>1, <1>6 DEF Truncate, Shapes, InSave
  <2>2. \A d \in Clients : InSave(d)' <=> InSave(d)
    BY <2>1 DEF InSave
  <2>3. OneSaver'
    BY <1>1, <2>2 DEF OneSaver
  <2>4. SaverHasAll'
    <3>. SUFFICES ASSUME NEW d \in Clients, InSave(d)
                  PROVE  client'[d].store = [lastSaved' EXCEPT ![client'[d].host] = client'[d].key]
      BY <2>2 DEF SaverHasAll
    <3>1. client'[d].store = client[d].store /\ client'[d].host = client[d].host
          /\ client'[d].key = client[d].key
      BY <2>1
    <3>. QED  BY <1>1, <2>1, <3>1 DEF SaverHasAll
  <2>5. FileIsSaved'
    BY <2>1 DEF FileIsSaved, Torn, NoTokens
  <2>. QED  BY <2>3, <2>4, <2>5
<1>7. ASSUME NEW c \in Clients, WriteAll(c)
      PROVE  (OneSaver /\ SaverHasAll /\ FileIsSaved)'
  <2>1. InSave(c) /\ client[c].at = "truncated"
    BY <1>7 DEF WriteAll, InSave
  <2>2. \A d \in Clients \ {c} : ~InSave(d) /\ client'[d] = client[d]
    BY <1>1, <1>7, <2>1 DEF OneSaver, WriteAll
  <2>3. tokenFile = Torn
    BY <1>1, <2>1 DEF FileIsSaved
  <2>4. tokenFile'.kind = "store" /\ tokenFile'.tokens = client[c].store
    BY <1>7, <2>3 DEF WriteAll, Torn
  <2>5. client[c].store = lastSaved'
    BY <1>1, <1>7, <2>1 DEF WriteAll, SaverHasAll
  <2>6. client'[c].at = "out"
    BY <1>1, <1>7, OutShape DEF WriteAll, Shapes
  <2>. QED  BY <2>2, <2>4, <2>5, <2>6 DEF OneSaver, SaverHasAll, FileIsSaved, InSave
<1>8. CASE UNCHANGED <<client, tokenFile, lastSaved>>
  BY <1>0, <1>1, <1>8, NoSaveTouched
<1>. QED  BY <1>2, <1>3, <1>4, <1>5, <1>6, <1>7, <1>8 DEF TokenNext, tokenVars, AcceptKey

\* Main result: without overlap and without a save cut short, the file holds
\* the last token saved for every host (token_store.rs, 88-134).
THEOREM TokensKept == TokenSpec => []TokensAreKept
<1>1. KeptInv => TokensAreKept
  BY DEF KeptInv, FileIsSaved, TokensAreKept
<1>. QED  BY KeptInit, KeptStep, <1>1, PTL DEF TokenSpec

(***************************************************************************)
(* Types.                                                                  *)
(***************************************************************************)

\* A process holds no key that its device has not made.
HeldKeysMade == \A c \in Clients : client[c].key <= made[client[c].host]

TokenTypeInv == TokenTypeOK /\ HeldKeysMade

\* The records of processes, named so that steps can be typed one field at a time.
Process == [at : {"out", "asking", "verifying", "saving", "loaded", "truncated"},
            via : {"usb", "wifi"}, host : TokenHosts, key : Keys,
            attempt : 0 .. MaxAttempts, store : Stores]

LEMMA OutType == /\ NoTokens \in Stores /\ Out \in Process /\ Out.key = 0 /\ 0 \in Keys
                 /\ Torn \in Files /\ Keys \subseteq Nat
<1>1. NoTokens \in Stores /\ 0 \in Keys /\ Keys \subseteq Nat
  BY TokenProvisioningAssumption DEF NoTokens, Stores, Keys
<1>2. (CHOOSE h \in TokenHosts : TRUE) \in TokenHosts
  BY TokenProvisioningAssumption
<1>3. Out \in Process /\ Out.key = 0
  BY <1>1, <1>2, TokenProvisioningAssumption DEF Out, Process
<1>4. Torn \in Files
  BY DEF Torn, Files
<1>. QED  BY <1>1, <1>3, <1>4

LEMMA TokenTypeInit == TokenInit => TokenTypeInv
<1>. SUFFICES ASSUME TokenInit PROVE TokenTypeInv
  OBVIOUS
<1>1. client \in [Clients -> Process]
  BY OutType DEF TokenInit
<1>2. tokenFile \in Files
  BY OutType DEF TokenInit, Files
<1>3. \A h \in TokenHosts : accepted[h] = 0 /\ made[h] = 0 /\ lastSaved[h] = 0
  BY DEF TokenInit, NoTokens
<1>4. TokenTypeOK
  <2>1. made \in Stores /\ accepted \in Stores /\ lastSaved \in Stores
    BY OutType DEF TokenInit
  <2>2. fromUsb \subseteq TokenHosts \X Keys
    BY DEF TokenInit
  <2>3. disturbed \in BOOLEAN
    BY DEF TokenInit
  <2>4. \A h \in TokenHosts : accepted[h] <= made[h] /\ lastSaved[h] <= made[h]
    BY <1>3
  <2>. QED  BY <1>1, <1>2, <2>1, <2>2, <2>3, <2>4 DEF TokenTypeOK, Process
<1>5. HeldKeysMade
  <2>. SUFFICES ASSUME NEW c \in Clients PROVE client[c].key <= made[client[c].host]
    BY DEF HeldKeysMade
  <2>1. client[c].key = 0 /\ client[c].host \in TokenHosts
    BY <1>1, OutType DEF TokenInit, Process
  <2>. QED  BY <1>3, <2>1
<1>. QED  BY <1>4, <1>5 DEF TokenTypeInv

\* What a process may become, when devices have made the same keys or more.
LEMMA ProcessStep ==
  ASSUME TokenTypeInv, NEW c \in Clients, NEW p \in Process,
         client' = [client EXCEPT ![c] = p],
         made' \in Stores, \A h \in TokenHosts : made[h] <= made'[h],
         p.key <= made'[p.host]
  PROVE  client' \in [Clients -> Process] /\ HeldKeysMade'
<1>1. client \in [Clients -> Process] /\ made \in Stores
  BY DEF TokenTypeInv, TokenTypeOK, Process
<1>2. client' \in [Clients -> Process]
  BY <1>1
<1>3. ASSUME NEW d \in Clients PROVE client'[d].key <= made'[client'[d].host]
  <2>1. CASE d = c
    BY <1>1, <2>1
  <2>2. CASE d # c
    <3>1. client'[d] = client[d] /\ client[d] \in Process
      BY <1>1, <2>2
    <3>2. client[d].host \in TokenHosts /\ client[d].key \in Nat
      BY <3>1, OutType DEF Process
    <3>3. client[d].key <= made[client[d].host]
      BY DEF TokenTypeInv, HeldKeysMade
    <3>4. made[client[d].host] \in Nat /\ made'[client[d].host] \in Nat
      BY <1>1, <3>2, OutType DEF Stores
    <3>. QED  BY <3>1, <3>2, <3>3, <3>4
  <2>. QED  BY <2>1, <2>2
<1>. QED  BY <1>2, <1>3 DEF HeldKeysMade

LEMMA TokenTypeStep == TokenTypeInv /\ [TokenNext]_tokenVars => TokenTypeInv'
<1>. SUFFICES ASSUME TokenTypeInv, [TokenNext]_tokenVars PROVE TokenTypeInv'
  OBVIOUS
<1>0. /\ tokenFile \in Files /\ client \in [Clients -> Process]
      /\ made \in Stores /\ accepted \in Stores /\ lastSaved \in Stores
      /\ \A h \in TokenHosts : accepted[h] <= made[h] /\ lastSaved[h] <= made[h]
      /\ fromUsb \subseteq TokenHosts \X Keys /\ disturbed \in BOOLEAN
      /\ \A h \in TokenHosts : made[h] \in Nat /\ accepted[h] \in Nat /\ lastSaved[h] \in Nat
  BY OutType DEF TokenTypeInv, TokenTypeOK, Process, Stores
<1>a. ASSUME NEW c \in Clients
      PROVE  /\ client[c] \in Process /\ client[c].host \in TokenHosts /\ client[c].key \in Keys
             /\ client[c].store \in Stores /\ client[c].attempt \in 0 .. MaxAttempts
             /\ client[c].key <= made[client[c].host]
  BY <1>0 DEF TokenTypeInv, HeldKeysMade, Process
<1>b. \A h \in TokenHosts : made[h] <= made[h]
  BY <1>0
<1>1. ASSUME NEW c \in Clients, Ask(c) PROVE TokenTypeInv'
  <2>1. PICK h \in TokenHosts, via \in {"usb", "wifi"} :
             client' = [client EXCEPT ![c].at = "asking", ![c].via = via, ![c].host = h]
    BY <1>1 DEF Ask
  <2>. DEFINE p == [client[c] EXCEPT !.at = "asking", !.via = via, !.host = h]
  <2>2. client' = [client EXCEPT ![c] = p]
    BY <1>0, <2>1
  <2>3. p \in Process /\ p.key = 0 /\ p.host = h
    BY <1>1, <1>a, OutType DEF Ask, Process
  <2>4. UNCHANGED <<tokenFile, made, accepted, lastSaved, fromUsb, disturbed>>
    BY <1>1 DEF Ask
  <2>5. p.key <= made'[p.host]
    BY <1>0, <2>3, <2>4
  <2>6. client' \in [Clients -> Process] /\ HeldKeysMade'
    <3>. HIDE DEF p
    <3>. QED  BY <1>0, <1>b, <2>2, <2>3, <2>4, <2>5, ProcessStep
  <2>. QED  BY <1>0, <2>4, <2>6 DEF TokenTypeInv, TokenTypeOK, Process
<1>2. ASSUME NEW c \in Clients, NEW h \in TokenHosts, MakeKey(h)
      PROVE  /\ made' \in Stores /\ \A g \in TokenHosts : made[g] <= made'[g]
             /\ \A g \in TokenHosts : accepted[g] <= made'[g] /\ lastSaved[g] <= made'[g]
             /\ made'[h] \in Keys
  <2>1. made' = [made EXCEPT ![h] = @ + 1] /\ made[h] < MaxKeys
    BY <1>2 DEF MakeKey
  <2>2. made[h] + 1 \in Keys
    BY <1>0, <2>1, TokenProvisioningAssumption DEF Keys
  <2>3. made' \in Stores
    BY <1>0, <2>1, <2>2 DEF Stores
  <2>4. ASSUME NEW g \in TokenHosts
        PROVE made[g] <= made'[g] /\ accepted[g] <= made'[g] /\ lastSaved[g] <= made'[g]
    <3>1. made'[g] = IF g = h THEN made[h] + 1 ELSE made[g]
      BY <1>0, <2>1 DEF Stores
    <3>. QED  BY <1>0, <3>1
  <2>5. made'[h] = made[h] + 1
    BY <1>0, <2>1 DEF Stores
  <2>. QED  BY <2>2, <2>3, <2>4, <2>5
<1>3. ASSUME NEW c \in Clients, TokenGenerated(c) PROVE TokenTypeInv'
  <2>. DEFINE h == client[c].host
              usb == client[c].via = "usb"
              p == [client[c] EXCEPT !.at = IF usb THEN "saving" ELSE "verifying",
                                     !.key = made'[h], !.attempt = IF usb THEN 0 ELSE 1]
  <2>1. /\ MakeKey(h) /\ UNCHANGED <<tokenFile, accepted, lastSaved, disturbed>>
        /\ fromUsb' = IF usb THEN fromUsb \cup {<<h, made'[h]>>} ELSE fromUsb
    BY <1>3 DEF TokenGenerated
  <2>2. /\ made' \in Stores /\ \A g \in TokenHosts : made[g] <= made'[g]
        /\ \A g \in TokenHosts : accepted[g] <= made'[g] /\ lastSaved[g] <= made'[g]
        /\ made'[h] \in Keys
    BY <1>2, <1>a, <2>1
  <2>3. client' = [client EXCEPT ![c] = p]
    BY <1>0, <1>3 DEF TokenGenerated
  <2>4. p \in Process /\ p.key = made'[h] /\ p.host = h
    <3>1. 0 \in 0 .. MaxAttempts /\ 1 \in 0 .. MaxAttempts
      BY TokenProvisioningAssumption
    <3>. QED  BY <1>a, <2>2, <3>1 DEF Process
  <2>5. p.key <= made'[p.host]
    BY <2>2, <2>4, OutType
  <2>6. client' \in [Clients -> Process] /\ HeldKeysMade'
    <3>. HIDE DEF p
    <3>. QED  BY <2>2, <2>3, <2>4, <2>5, ProcessStep
  <2>7. fromUsb' \subseteq TokenHosts \X Keys
    <3>. HIDE DEF usb
    <3>. QED  BY <1>0, <1>a, <2>1, <2>2
  <2>. QED  BY <1>0, <2>1, <2>2, <2>6, <2>7 DEF TokenTypeInv, TokenTypeOK, Process
<1>4. ASSUME NEW c \in Clients, GenerateFails(c) PROVE TokenTypeInv'
  <2>1. /\ client' = [client EXCEPT ![c] = Out]
        /\ UNCHANGED <<tokenFile, accepted, lastSaved, fromUsb, disturbed>>
    BY <1>4 DEF GenerateFails
  <2>2. /\ made' \in Stores /\ \A g \in TokenHosts : made[g] <= made'[g]
        /\ \A g \in TokenHosts : accepted[g] <= made'[g] /\ lastSaved[g] <= made'[g]
    <3>1. CASE MakeKey(client[c].host)
      BY <1>2, <1>a, <3>1
    <3>2. CASE UNCHANGED made
      BY <1>0, <3>2
    <3>. QED  BY <1>4, <3>1, <3>2 DEF GenerateFails
  <2>3. Out.host \in TokenHosts /\ Out.key <= made'[Out.host]
    <3>1. Out.host \in TokenHosts /\ made'[Out.host] \in Keys
      BY <2>2, OutType DEF Process, Stores
    <3>2. Out.key = 0 /\ made'[Out.host] \in Nat
      BY <3>1, OutType
    <3>. QED  BY <3>1, <3>2
  <2>4. client' \in [Clients -> Process] /\ HeldKeysMade'
    BY <2>1, <2>2, <2>3, OutType, ProcessStep
  <2>. QED  BY <1>0, <2>1, <2>2, <2>4 DEF TokenTypeInv, TokenTypeOK, Process
<1>5. ASSUME NEW c \in Clients, NEW p \in Process, client' = [client EXCEPT ![c] = p],
             p = Out \/ (p.host = client[c].host /\ p.key = client[c].key), made' = made
      PROVE  client' \in [Clients -> Process] /\ HeldKeysMade'
  <2>1. p.key <= made'[p.host]
    <3>1. CASE p = Out
      <4>1. p.host \in TokenHosts /\ made[p.host] \in Keys
        BY <1>0 DEF Process, Stores
      <4>2. p.key = 0 /\ made[p.host] \in Nat
        BY <3>1, <4>1, OutType
      <4>. QED  BY <1>5, <4>2
    <3>2. CASE p.host = client[c].host /\ p.key = client[c].key
      BY <1>a, <1>5, <3>2
    <3>. QED  BY <1>5, <3>1, <3>2
  <2>. QED  BY <1>0, <1>b, <1>5, <2>1, ProcessStep
<1>6. ASSUME NEW c \in Clients, Verified(c) PROVE TokenTypeInv'
  <2>. DEFINE p == [client[c] EXCEPT !.at = "saving", !.attempt = 0]
  <2>1. /\ client' = [client EXCEPT ![c] = p]
        /\ UNCHANGED <<tokenFile, made, accepted, lastSaved, fromUsb, disturbed>>
    BY <1>0, <1>6 DEF Verified
  <2>2. p \in Process /\ p.host = client[c].host /\ p.key = client[c].key
    <3>1. 0 \in 0 .. MaxAttempts
      BY TokenProvisioningAssumption
    <3>. QED  BY <1>a, <3>1 DEF Process
  <2>3. client' \in [Clients -> Process] /\ HeldKeysMade'
    <3>. HIDE DEF p
    <3>. QED  BY <1>5, <2>1, <2>2
  <2>. QED  BY <1>0, <2>1, <2>3 DEF TokenTypeInv, TokenTypeOK, Process
<1>7. ASSUME NEW c \in Clients, AttemptFails(c) PROVE TokenTypeInv'
  <2>. DEFINE more == [client[c] EXCEPT !.attempt = @ + 1]
              p == IF client[c].attempt < MaxAttempts THEN more ELSE Out
  <2>1. /\ client' = [client EXCEPT ![c] = p]
        /\ UNCHANGED <<tokenFile, made, accepted, lastSaved, fromUsb, disturbed>>
    BY <1>0, <1>7 DEF AttemptFails, AfterLastAttempt
  <2>2. p \in Process /\ (p = Out \/ (p.host = client[c].host /\ p.key = client[c].key))
    <3>1. CASE client[c].attempt < MaxAttempts
      <4>1. client[c].attempt + 1 \in 0 .. MaxAttempts
        BY <1>a, <3>1, TokenProvisioningAssumption
      <4>. QED  BY <1>a, <3>1, <4>1 DEF Process
    <3>2. CASE ~(client[c].attempt < MaxAttempts)
      BY <3>2, OutType
    <3>. QED  BY <3>1, <3>2
  <2>3. client' \in [Clients -> Process] /\ HeldKeysMade'
    <3>. HIDE DEF p
    <3>. QED  BY <1>5, <2>1, <2>2
  <2>. QED  BY <1>0, <2>1, <2>3 DEF TokenTypeInv, TokenTypeOK, Process
<1>8. ASSUME NEW c \in Clients, Load(c) PROVE TokenTypeInv'
  <2>. DEFINE new == Upsert(tokenFile.tokens, client[c].host, client[c].key)
              loaded == [client[c] EXCEPT !.at = "loaded", !.store = new]
              p == IF tokenFile.kind = "torn" THEN Out ELSE loaded
  <2>1. /\ client' = [client EXCEPT ![c] = p]
        /\ UNCHANGED <<tokenFile, made, accepted, lastSaved, fromUsb>>
        /\ disturbed' \in BOOLEAN
    BY <1>0, <1>8 DEF Load
  <2>2. tokenFile.tokens \in Stores
    BY <1>0, OutType DEF Files
  <2>3. new \in Stores
    BY <1>a, <2>2 DEF Upsert, Stores
  <2>4. p \in Process /\ (p = Out \/ (p.host = client[c].host /\ p.key = client[c].key))
    <3>. HIDE DEF new
    <3>. QED  BY <1>a, <2>3, OutType DEF Process
  <2>5. client' \in [Clients -> Process] /\ HeldKeysMade'
    <3>. HIDE DEF p
    <3>. QED  BY <1>5, <2>1, <2>4
  <2>. QED  BY <1>0, <2>1, <2>5 DEF TokenTypeInv, TokenTypeOK, Process
<1>9. ASSUME NEW c \in Clients, Truncate(c) PROVE TokenTypeInv'
  <2>. DEFINE p == [client[c] EXCEPT !.at = "truncated"]
  <2>1. /\ client' = [client EXCEPT ![c] = p] /\ tokenFile' = Torn
        /\ UNCHANGED <<made, accepted, lastSaved, fromUsb, disturbed>>
    BY <1>0, <1>9 DEF Truncate
  <2>2. p \in Process /\ p.host = client[c].host /\ p.key = client[c].key
    BY <1>a DEF Process
  <2>3. client' \in [Clients -> Process] /\ HeldKeysMade'
    <3>. HIDE DEF p
    <3>. QED  BY <1>5, <2>1, <2>2
  <2>. QED  BY <1>0, <2>1, <2>3, OutType DEF TokenTypeInv, TokenTypeOK, Process
<1>10. ASSUME NEW c \in Clients, WriteAll(c) PROVE TokenTypeInv'
  <2>1. /\ client' = [client EXCEPT ![c] = Out]
        /\ lastSaved' = [lastSaved EXCEPT ![client[c].host] = client[c].key]
        /\ UNCHANGED <<made, accepted, fromUsb, disturbed>>
        /\ tokenFile' = Torn \/ tokenFile' = [kind |-> "store", tokens |-> client[c].store]
    BY <1>10 DEF WriteAll
  <2>2. tokenFile' \in Files
    BY <1>a, <2>1, OutType DEF Files
  <2>3. lastSaved' \in Stores /\ \A h \in TokenHosts : lastSaved'[h] <= made[h]
    BY <1>0, <1>a, <2>1 DEF Stores
  <2>4. client' \in [Clients -> Process] /\ HeldKeysMade'
    BY <1>5, <2>1, OutType
  <2>. QED  BY <1>0, <2>1, <2>2, <2>3, <2>4 DEF TokenTypeInv, TokenTypeOK, Process
<1>11. ASSUME NEW c \in Clients, ProcessEnds(c) PROVE TokenTypeInv'
  <2>1. /\ client' = [client EXCEPT ![c] = Out]
        /\ UNCHANGED <<made, accepted, lastSaved, fromUsb>>
        /\ tokenFile' \in {tokenFile, Torn} /\ disturbed' \in BOOLEAN
    BY <1>0, <1>11 DEF ProcessEnds
  <2>2. client' \in [Clients -> Process] /\ HeldKeysMade'
    BY <1>5, <2>1, OutType
  <2>. QED  BY <1>0, <2>1, <2>2, OutType DEF TokenTypeInv, TokenTypeOK, Process
<1>12. ASSUME NEW h \in TokenHosts, AcceptKey(h) PROVE TokenTypeInv'
  <2>1. /\ accepted' = [accepted EXCEPT ![h] = made[h]]
        /\ UNCHANGED <<tokenFile, client, made, lastSaved, fromUsb, disturbed>>
    BY <1>12 DEF AcceptKey
  <2>2. accepted' \in Stores /\ \A g \in TokenHosts : accepted'[g] <= made[g]
    BY <1>0, <2>1 DEF Stores
  <2>. QED  BY <1>0, <2>1, <2>2 DEF TokenTypeInv, TokenTypeOK, Process, HeldKeysMade
<1>13. CASE UNCHANGED tokenVars
  BY <1>13 DEF tokenVars, TokenTypeInv, TokenTypeOK, HeldKeysMade
<1>. QED  BY <1>1, <1>3, <1>4, <1>6, <1>7, <1>8, <1>9, <1>10, <1>11, <1>12, <1>13 DEF TokenNext

(***************************************************************************)
(* The types and bounds of TokenProvisioning: among them that no process   *)
(* makes more than MaxAttempts attempts at verifying a token, and that     *)
(* what a device accepts and what was saved for it are keys it has made.   *)
(***************************************************************************)
THEOREM TokenTypes == TokenSpec => []TokenTypeOK
<1>1. TokenInit => TokenTypeInv
  BY TokenTypeInit
<1>2. TokenTypeInv /\ [TokenNext]_tokenVars => TokenTypeInv'
  BY TokenTypeStep
<1>3. TokenTypeInv => TokenTypeOK
  BY DEF TokenTypeInv
<1>. QED  BY <1>1, <1>2, <1>3, PTL DEF TokenSpec

Unmoved == inSocket = [b \in Boards |-> b]

\* The ports of a target are those of one board, which reported itself with
\* the target's host unless boards were moved before.
OneBoard(t) ==
  \A p \in Range(t.ports) :
    /\ p.serial = p.socket
    /\ \A q \in Range(t.ports) : q.socket = p.socket
    /\ Unmoved => t.host \in {p.socket, NoBoard}

\* What a target is made of: the ports listed, and so far no answer.
Grouping ==
  /\ matches \in Seq(Port) /\ targets \in Seq(Target) /\ asked \in 0 .. Len(targets)
  /\ \A p \in Range(matches) : p.serial \in {p.socket, NoBoard}
  /\ \A i \in DOMAIN targets : targets[i].ports # <<>> /\ OneBoard(targets[i])

\* Nothing is downloaded before the selection, nothing flashed before all of
\* it is there; what is flashed is the file or all of what was made for the
\* host selected.
LocalImage == <<[of |-> NoBoard, data |-> "file"]>>

Images ==
  /\ stage \in {"start", "attached", "select", "resolve"} => image = <<>>
  /\ \/ image = LocalImage /\ stage # "fetch"
     \/ \A p \in Range(image) : p = [of |-> chosen.host, data |-> "sent"]
  /\ stage \in {"flash", "write", "reset", "verify", "verified"} \/ flashed # NoBoard =>
       image = LocalImage \/ Len(image) = wanted

\* The board written to, from the first byte on.
Programmed ==
  /\ stage \in {"start", "attached", "select", "resolve", "fetch", "flash"} => flashed = NoBoard
  /\ stage \in {"write", "reset"} => flashed # NoBoard
  /\ stage \in {"verify", "verified"} /\ image # <<>> => flashed # NoBoard
  /\ stage \in {"reset", "verify", "verified"} /\ flashed # NoBoard =>
       firmware[flashed] \in {"new", "dud", "old"}
  /\ flashed # NoBoard /\ Unmoved => \A p \in Range(chosen.ports) : p.socket = flashed
  /\ flashed # NoBoard /\ Unmoved => chosen.host \in {flashed, NoBoard}

UpdateInv ==
  UpdateTypeOK /\ Grouping /\ OneBoard(chosen) /\ Images /\ Programmed /\ VerifiedMeansFlashed

-----------------------------------------------------------------------------

LEMMA RangeGrows ==
  ASSUME NEW S, NEW s \in Seq(S), NEW e \in S
  PROVE  Append(s, e) \in Seq(S) /\ Append(s, e) # <<>> /\ Range(Append(s, e)) = Range(s) \cup {e}
<1>1. /\ Append(s, e) \in Seq(S) /\ Append(s, e) # <<>> /\ Len(Append(s, e)) = Len(s) + 1
      /\ \A i \in 1 .. Len(s) : Append(s, e)[i] = s[i]
      /\ Append(s, e)[Len(s) + 1] = e
  BY AppendProperties
<1>2. Range(Append(s, e)) = {Append(s, e)[i] : i \in 1 .. Len(s) + 1}
      /\ Range(s) = {s[i] : i \in 1 .. Len(s)}
  BY <1>1, RangeEquality
<1>3. Len(s) \in Nat
  OBVIOUS
<1>. QED  BY <1>1, <1>2, <1>3

LEMMA RangeShrinks ==
  ASSUME NEW S, NEW s \in Seq(S), s # <<>>
  PROVE  Head(s) \in Range(s) /\ Tail(s) \in Seq(S) /\ Range(Tail(s)) \subseteq Range(s)
<1>1. /\ Tail(s) \in Seq(S) /\ Len(Tail(s)) = Len(s) - 1
      /\ \A i \in 1 .. Len(Tail(s)) : Tail(s)[i] = s[i + 1]
  BY HeadTailProperties
<1>2. Range(Tail(s)) = {Tail(s)[i] : i \in 1 .. Len(Tail(s))} /\ Range(s) = {s[i] : i \in 1 .. Len(s)}
  BY <1>1, RangeEquality
<1>3. Len(s) \in Nat /\ Len(s) # 0 /\ Head(s) = s[1]
  OBVIOUS
<1>. QED  BY <1>1, <1>2, <1>3

\* A port joins the target of its board, or begins one: a port without a serial
\* number is dropped, so that two boards never share a target.
LEMMA PortsGrouped ==
  ASSUME NEW found \in Seq(Target), NEW p \in Port, p.serial \in {p.socket, NoBoard},
         \A i \in DOMAIN found : found[i].ports # <<>> /\ OneBoard(found[i])
  PROVE  /\ AddPort(found, p) \in Seq(Target) /\ Len(AddPort(found, p)) >= Len(found)
         /\ \A i \in DOMAIN AddPort(found, p) :
              AddPort(found, p)[i].ports # <<>> /\ OneBoard(AddPort(found, p)[i])
<1>. DEFINE same(i) == \E q \in Range(found[i].ports) : q.serial = p.serial
<1>0. \A n \in Nat : n >= n /\ n + 1 >= n
  OBVIOUS
<1>1. CASE ~HasSerial(p)
  <2>1. AddPort(found, p) = found
    BY <1>1 DEF AddPort
  <2>. QED  BY <2>1, <1>0
<1>2. CASE HasSerial(p) /\ \E i \in DOMAIN found : same(i)
  <2>1. PICK i \in DOMAIN found :
          same(i) /\ AddPort(found, p) = [found EXCEPT ![i].ports = Append(found[i].ports, p)]
    <3>. DEFINE i == CHOOSE i \in DOMAIN found : same(i)
    <3>1. i \in DOMAIN found /\ same(i)
      BY <1>2
    <3>2. AddPort(found, p) = [found EXCEPT ![i].ports = Append(@, p)]
      BY <1>2 DEF AddPort
    <3>. QED  BY <3>1, <3>2
  <2>2. PICK q \in Range(found[i].ports) : q.serial = p.serial
    BY <2>1
  <2>3. p.serial = p.socket /\ q.socket = p.socket
    BY <1>2, <2>2 DEF HasSerial, OneBoard
  <2>4. found[i] \in Target /\ found[i].ports \in Seq(Port)
    <3>1. found[i] \in Target
      BY <2>1
    <3>. QED  BY <3>1 DEF Target
  <2>. DEFINE longer == Append(found[i].ports, p)
              t == [found[i] EXCEPT !.ports = longer]
  <2>5. longer \in Seq(Port) /\ longer # <<>> /\ Range(longer) = Range(found[i].ports) \cup {p}
    BY <2>4, RangeGrows
  <2>6. t \in Target /\ t.ports = longer /\ t.host = found[i].host
    BY <2>4, <2>5 DEF Target
  <2>7. OneBoard(t)
    BY <2>2, <2>3, <2>5, <2>6 DEF OneBoard
  <2>8. AddPort(found, p) = [found EXCEPT ![i] = t]
    BY <2>1
  <2>9. Len(found) \in Nat /\ DOMAIN found = 1 .. Len(found)
    OBVIOUS
  <2>. HIDE DEF t, longer
  <2>10. AddPort(found, p) \in Seq(Target) /\ Len(AddPort(found, p)) = Len(found)
         /\ DOMAIN AddPort(found, p) = DOMAIN found
         /\ \A j \in DOMAIN found : AddPort(found, p)[j] = IF j = i THEN t ELSE found[j]
    <3>1. i \in 1 .. Len(found) /\ t \in Target
      BY <2>1, <2>6, <2>9
    <3>2. /\ [found EXCEPT ![i] = t] \in Seq(Target) /\ Len([found EXCEPT ![i] = t]) = Len(found)
          /\ \A j \in 1 .. Len(found) : [found EXCEPT ![i] = t][j] = IF j = i THEN t ELSE found[j]
      BY <3>1, ExceptSeq
    <3>. QED  BY <2>8, <2>9, <3>2
  <2>. QED  BY <2>5, <2>6, <2>7, <2>9, <2>10, <1>0
<1>3. CASE HasSerial(p) /\ ~ \E i \in DOMAIN found : same(i)
  <2>. DEFINE t == [ports |-> <<p>>, host |-> NoBoard]
  <2>1. AddPort(found, p) = Append(found, t)
    BY <1>3 DEF AddPort
  <2>2. t \in Target /\ t.ports # <<>> /\ Range(t.ports) = {p}
    BY DEF Target, Range
  <2>3. OneBoard(t)
    BY <1>3, <2>2 DEF OneBoard, HasSerial
  <2>. HIDE DEF t
  <2>4. /\ Append(found, t) \in Seq(Target) /\ Len(Append(found, t)) = Len(found) + 1
        /\ \A j \in 1 .. Len(found) : Append(found, t)[j] = found[j]
        /\ Append(found, t)[Len(found) + 1] = t
        /\ DOMAIN Append(found, t) = 1 .. Len(found) + 1 /\ DOMAIN found = 1 .. Len(found)
        /\ Len(found) \in Nat
    BY <2>2, AppendProperties
  <2>. QED  BY <2>1, <2>2, <2>3, <2>4
<1>. QED  BY <1>1, <1>2, <1>3

-----------------------------------------------------------------------------

LEMMA UpdateBegins == UpdateInit => UpdateInv
<1>. SUFFICES ASSUME UpdateInit PROVE UpdateInv
  OBVIOUS
<1>1. Nothing \in Target /\ \A p \in Range(Nothing.ports) : FALSE
  BY DEF Nothing, Target, Range
<1>2. \A p \in Range(<<>>) : FALSE
  BY DEF Range
<1>3. UpdateTypeOK
  BY <1>1, FirmwareUpdateAssumption DEF UpdateInit, UpdateTypeOK
<1>4. Grouping /\ OneBoard(chosen)
  BY <1>1, <1>2, <1>3 DEF UpdateInit, UpdateTypeOK, Grouping, OneBoard
<1>5. Images /\ Programmed /\ VerifiedMeansFlashed
  BY <1>2 DEF UpdateInit, Images, Programmed, VerifiedMeansFlashed
<1>. QED  BY <1>3, <1>4, <1>5 DEF UpdateInv

\* Before the tool is started nothing has been written.
LEMMA BreakStep ==
  ASSUME UpdateInv, NEW b \in Boards, Break(b) PROVE UpdateInv'
BY DEF UpdateInv, UpdateTypeOK, Grouping, OneBoard, Unmoved, Images, Programmed, VerifiedMeansFlashed,
       Break, Ended, listVars

\* Once boards are moved, nothing is claimed of where they were.
LEMMA ReplugStep ==
  ASSUME UpdateInv, NEW a \in Boards, NEW b \in Boards, Replug(a, b) PROVE UpdateInv'
<1>1. ~Unmoved' /\ inSocket' \in [Boards -> Boards]
  BY DEF UpdateInv, UpdateTypeOK, Replug, Unmoved
<1>2. UNCHANGED <<stage, firmware, listVars, chosen, wanted, image, rounds, answering, flashed>>
      /\ stage \notin Ended /\ Unmoved
  BY DEF Replug, Unmoved
<1>3. UpdateTypeOK'
  BY <1>1, <1>2 DEF UpdateInv, UpdateTypeOK, listVars
<1>4. Grouping' /\ OneBoard(chosen)'
  BY <1>1, <1>2 DEF UpdateInv, Grouping, OneBoard, listVars
<1>5. Images' /\ Programmed' /\ VerifiedMeansFlashed'
  BY <1>1, <1>2 DEF UpdateInv, Images, Programmed, VerifiedMeansFlashed, Ended
<1>. QED  BY <1>3, <1>4, <1>5 DEF UpdateInv

\* Nothing is selected, downloaded or flashed while the targets are collected.
LEMMA Collecting ==
  ASSUME UpdateInv, UNCHANGED <<boardVars, chosen, wanted, image, rounds, answering, flashed>>,
         stage' = stage \/ (stage = "start" /\ stage' = "attached"),
         Grouping'
  PROVE  UpdateInv'
<1>. USE DEF boardVars
<1>1. UpdateTypeOK'
  BY DEF UpdateInv, UpdateTypeOK, Grouping
<1>2. OneBoard(chosen)'
  BY DEF UpdateInv, OneBoard, Unmoved
<1>3. Images' /\ Programmed' /\ VerifiedMeansFlashed'
  BY DEF UpdateInv, Images, LocalImage, Programmed, VerifiedMeansFlashed, Running, Unmoved
<1>. QED  BY <1>1, <1>2, <1>3 DEF UpdateInv

\* A target is what it is, whatever was unlisted or asked in the meantime.
LEMMA GroupingAfter ==
  ASSUME UNCHANGED boardVars,
         matches' \in Seq(Port), targets' \in Seq(Target), asked' \in 0 .. Len(targets'),
         \A p \in Range(matches') : p.serial \in {p.socket, NoBoard},
         \A i \in DOMAIN targets' : targets'[i].ports # <<>> /\ OneBoard(targets'[i])
  PROVE  Grouping'
<1>1. \A i \in DOMAIN targets' : OneBoard(targets[i])'
  BY DEF OneBoard, Unmoved, boardVars
<1>. QED  BY <1>1 DEF Grouping

LEMMA ListPortsStep ==
  ASSUME UpdateInv, ListPorts PROVE UpdateInv'
<1>1. /\ matches' \in UNION {[1 .. n -> Port] : n \in 0 .. MaxPorts}
      /\ \E B \in SUBSET Boards : \A i \in DOMAIN matches' :
           matches'[i].serial = IF matches'[i].socket \in B THEN matches'[i].socket ELSE NoBoard
  BY DEF ListPorts, Listings
<1>2. PICK n \in 0 .. MaxPorts : matches' \in [1 .. n -> Port]
  BY <1>1
<1>3. matches' \in Seq(Port)
  BY <1>2, FirmwareUpdateAssumption
<1>4. \A p \in Range(matches') : p.serial \in {p.socket, NoBoard}
  BY <1>1, <1>2 DEF Range
<1>5. Grouping'
  BY <1>3, <1>4 DEF ListPorts, UpdateInv, Grouping, OneBoard, Unmoved, boardVars
<1>. QED  BY <1>5, Collecting DEF ListPorts, boardVars

LEMMA GroupPortStep ==
  ASSUME UpdateInv, GroupPort PROVE UpdateInv'
<1>1. matches \in Seq(Port) /\ matches # <<>> /\ targets \in Seq(Target)
  BY DEF UpdateInv, UpdateTypeOK, GroupPort
<1>2. /\ Head(matches) \in Range(matches) /\ Head(matches) \in Port
      /\ Tail(matches) \in Seq(Port) /\ Range(Tail(matches)) \subseteq Range(matches)
  BY <1>1, RangeShrinks, HeadTailProperties
<1>3. Head(matches).serial \in {Head(matches).socket, NoBoard}
  BY <1>2 DEF UpdateInv, Grouping
<1>4. /\ targets' \in Seq(Target) /\ Len(targets') >= Len(targets)
      /\ \A i \in DOMAIN targets' : targets'[i].ports # <<>> /\ OneBoard(targets'[i])
  BY <1>1, <1>2, <1>3, PortsGrouped DEF GroupPort, UpdateInv, Grouping
<1>5. asked' \in 0 .. Len(targets')
  BY <1>1, <1>4 DEF UpdateInv, UpdateTypeOK, GroupPort
<1>6. \A p \in Range(matches') : p.serial \in {p.socket, NoBoard}
  BY <1>2 DEF GroupPort, UpdateInv, Grouping
<1>7. stage' = stage /\ UNCHANGED <<boardVars, chosen, wanted, image, rounds, answering, flashed>>
  BY DEF GroupPort, boardVars
<1>8. matches' \in Seq(Port)
  BY <1>2 DEF GroupPort
<1>9. Grouping'
  BY <1>4, <1>5, <1>6, <1>7, <1>8, GroupingAfter DEF boardVars
<1>. QED  BY <1>7, <1>9, Collecting

\* A target is asked over a port of its board.
LEMMA AskTargetStep ==
  ASSUME UpdateInv, AskTarget PROVE UpdateInv'
<1>. DEFINE i == asked + 1
            t == targets[i]
            b == inSocket[t.ports[1].socket]
<1>1. targets \in Seq(Target) /\ asked \in 0 .. Len(targets) /\ asked < Len(targets)
  BY DEF UpdateInv, UpdateTypeOK, AskTarget
<1>2. i \in 1 .. Len(targets) /\ i \in DOMAIN targets /\ Len(targets) \in Nat
  BY <1>1
<1>3. t \in Target /\ t.ports \in Seq(Port) /\ t.ports # <<>> /\ OneBoard(t)
  <2>1. t \in Target
    BY <1>1, <1>2
  <2>. QED  BY <1>2, <2>1 DEF Target, UpdateInv, Grouping
<1>4. t.ports[1] \in Port /\ t.ports[1] \in Range(t.ports)
  <2>1. Head(t.ports) \in Port /\ Head(t.ports) \in Range(t.ports) /\ Head(t.ports) = t.ports[1]
    BY <1>3, RangeShrinks, HeadTailProperties
  <2>. QED  BY <2>1
<1>5. b \in Boards /\ (Unmoved => b = t.ports[1].socket)
  BY <1>4 DEF UpdateInv, UpdateTypeOK, Unmoved, Port
<1>6. PICK host \in {NoBoard, b} : targets' = [targets EXCEPT ![i].host = host]
  BY DEF AskTarget
<1>. DEFINE asks == [t EXCEPT !.host = host]
<1>7. asks \in Target /\ asks.ports = t.ports /\ asks.host = host
  BY <1>3, <1>5 DEF Target
<1>8. OneBoard(asks)
  BY <1>3, <1>4, <1>5, <1>7 DEF OneBoard
<1>9. targets' = [targets EXCEPT ![i] = asks]
  BY <1>6
<1>. HIDE DEF asks, i, b
<1>10. /\ targets' \in Seq(Target) /\ Len(targets') = Len(targets)
       /\ \A j \in 1 .. Len(targets) : targets'[j] = IF j = i THEN asks ELSE targets[j]
  BY <1>1, <1>2, <1>7, <1>9, ExceptSeq
<1>11. \A j \in DOMAIN targets' : targets'[j].ports # <<>> /\ OneBoard(targets'[j])
  <2>1. DOMAIN targets' = 1 .. Len(targets) /\ DOMAIN targets = 1 .. Len(targets)
    BY <1>1, <1>10
  <2>2. \A j \in DOMAIN targets : targets[j].ports # <<>> /\ OneBoard(targets[j])
    BY DEF UpdateInv, Grouping
  <2>. QED  BY <1>3, <1>7, <1>8, <1>10, <2>1, <2>2
<1>12. asked' \in 0 .. Len(targets') /\ stage' = stage /\ matches' = matches
       /\ UNCHANGED <<boardVars, chosen, wanted, image, rounds, answering, flashed>>
  BY <1>2, <1>10 DEF AskTarget, i
<1>13. matches' \in Seq(Port) /\ \A p \in Range(matches') : p.serial \in {p.socket, NoBoard}
  BY <1>12 DEF UpdateInv, UpdateTypeOK, Grouping
<1>14. Grouping'
  BY <1>10, <1>11, <1>12, <1>13, GroupingAfter DEF boardVars
<1>. QED  BY <1>12, <1>14, Collecting DEF boardVars

\* Once the targets are collected they stay as they are.
LEMMA TargetsStay ==
  ASSUME UpdateInv, UNCHANGED <<inSocket, listVars>>
  PROVE  Grouping' /\ (OneBoard(chosen') => OneBoard(chosen)')
BY DEF UpdateInv, Grouping, OneBoard, Unmoved, listVars

LEMMA SelectSteps ==
  ASSUME UpdateInv, Confirm \/ Select PROVE UpdateInv'
<1>. USE DEF UpdateInv
<1>1. /\ UNCHANGED <<boardVars, listVars, wanted, image, rounds, answering, flashed>>
      /\ stage \in {"attached", "select"} /\ stage' \in {"select", "resolve", "aborted", "error"}
  BY DEF Confirm, Select, boardVars, listVars
<1>2. chosen' = chosen \/ \E i \in DOMAIN targets : chosen' = targets[i]
  BY DEF Confirm, Select
<1>3. OneBoard(chosen') /\ chosen' \in Target
  BY <1>2 DEF Grouping, UpdateTypeOK
<1>4. Grouping' /\ OneBoard(chosen)'
  BY <1>1, <1>3, TargetsStay DEF boardVars
<1>5. UpdateTypeOK'
  BY <1>1, <1>3 DEF UpdateTypeOK, Ended, boardVars, listVars
<1>6. image' = <<>> /\ flashed' = NoBoard
  BY <1>1 DEF Images, Programmed
<1>7. Images' /\ Programmed' /\ VerifiedMeansFlashed'
  BY <1>1, <1>6 DEF Images, Programmed, VerifiedMeansFlashed, Range
<1>. QED  BY <1>4, <1>5, <1>7

\* A payload is kept when it is what the manifest says, and made for the host
\* selected.
LEMMA DownloadStep ==
  ASSUME UpdateInv, Download PROVE UpdateInv'
<1>. USE DEF UpdateInv
<1>1. /\ UNCHANGED <<boardVars, listVars, chosen, rounds, answering, flashed>>
      /\ stage = "fetch" /\ stage' \in {"fetch", "error"} /\ flashed = NoBoard
      /\ \/ UNCHANGED image
         \/ image' = Append(image, [of |-> chosen.host, data |-> "sent"])
      /\ Len(image) < wanted /\ wanted' = wanted
  BY DEF Download, Accepts, Programmed
<1>2. Grouping' /\ OneBoard(chosen)'
  BY <1>1, TargetsStay DEF boardVars
<1>. DEFINE e == [of |-> chosen.host, data |-> "sent"]
<1>3. e \in Payload /\ image \in Seq(Payload)
  BY DEF Payload, Target, UpdateTypeOK
<1>4. /\ Append(image, e) \in Seq(Payload) /\ Len(Append(image, e)) = Len(image) + 1
      /\ Range(Append(image, e)) = Range(image) \cup {e}
  BY <1>3, RangeGrows, AppendProperties
<1>5. UpdateTypeOK'
  <2>1. image' \in Seq(Payload) /\ Len(image') <= MaxPayloads
    <3>1. /\ MaxPayloads \in Nat /\ wanted \in Nat /\ Len(image) \in Nat /\ wanted <= MaxPayloads
          /\ Len(image) <= MaxPayloads
      BY <1>3, FirmwareUpdateAssumption DEF UpdateTypeOK
    <3>2. image' \in Seq(Payload) /\ (Len(image') = Len(image) \/ Len(image') = Len(image) + 1)
      BY <1>1, <1>3, <1>4
    <3>. HIDE DEF UpdateInv
    <3>. QED  BY <1>1, <3>1, <3>2
  <2>. QED  BY <1>1, <2>1 DEF UpdateTypeOK, Ended, boardVars, listVars
<1>6. Images'
  <2>1. \A p \in Range(image') : p = e
    BY <1>1, <1>4 DEF Images
  <2>. QED  BY <1>1, <2>1 DEF Images
<1>7. Programmed' /\ VerifiedMeansFlashed'
  BY <1>1 DEF Programmed, VerifiedMeansFlashed
<1>. QED  BY <1>2, <1>5, <1>6, <1>7

LEMMA ResolveSteps ==
  ASSUME UpdateInv, UseLocalFile \/ FetchManifest \/ Downloaded \/ ResolveFails PROVE UpdateInv'
<1>. USE DEF UpdateInv
<1>1. /\ UNCHANGED <<boardVars, listVars, chosen, rounds, answering, flashed>>
      /\ stage \in {"resolve", "fetch"} /\ stage' \in {"fetch", "flash", "error"} /\ flashed = NoBoard
  BY DEF UseLocalFile, FetchManifest, Downloaded, ResolveFails, Programmed
<1>2. Grouping' /\ OneBoard(chosen)'
  BY <1>1, TargetsStay DEF boardVars
<1>3. \/ UNCHANGED <<image, wanted>> /\ stage' # "fetch" /\ (stage' = "flash" => Len(image) = wanted)
      \/ image' = LocalImage /\ wanted' = wanted /\ stage' = "flash"
      \/ image' = <<>> /\ wanted' \in 0 .. MaxPayloads /\ stage' = "fetch"
  BY DEF UseLocalFile, FetchManifest, Downloaded, ResolveFails, Images, LocalImage
<1>4. /\ image' \in Seq(Payload) /\ wanted' \in 0 .. MaxPayloads /\ Len(image') <= MaxPayloads
      /\ \/ image' = LocalImage /\ stage' # "fetch"
         \/ \A p \in Range(image') : p = [of |-> chosen'.host, data |-> "sent"]
      /\ stage' = "flash" => image' = LocalImage \/ Len(image') = wanted'
  <2>1. CASE UNCHANGED <<image, wanted>> /\ stage' # "fetch" /\ (stage' = "flash" => Len(image) = wanted)
    BY <1>1, <1>3, <2>1 DEF UpdateTypeOK, Images
  <2>2. CASE image' = LocalImage /\ wanted' = wanted /\ stage' = "flash"
    <3>1. [of |-> NoBoard, data |-> "file"] \in Payload
      BY DEF Payload
    <3>2. Len(image') = 1 /\ image' \in Seq(Payload)
      BY <2>2, <3>1 DEF LocalImage
    <3>3. 1 <= MaxPayloads
      BY FirmwareUpdateAssumption
    <3>. QED  BY <2>2, <3>2, <3>3 DEF UpdateTypeOK
  <2>3. CASE image' = <<>> /\ wanted' \in 0 .. MaxPayloads /\ stage' = "fetch"
    <3>1. Len(image') = 0 /\ image' \in Seq(Payload) /\ Range(image') = {}
      BY <2>3 DEF Range
    <3>2. 0 <= MaxPayloads
      BY FirmwareUpdateAssumption
    <3>. QED  BY <2>3, <3>1, <3>2
  <2>. QED  BY <1>3, <2>1, <2>2, <2>3
<1>5. UpdateTypeOK'
  BY <1>1, <1>4 DEF UpdateTypeOK, Ended, boardVars, listVars
<1>6. Images'
  BY <1>1, <1>4 DEF Images
<1>7. Programmed' /\ VerifiedMeansFlashed'
  BY <1>1 DEF Programmed, VerifiedMeansFlashed
<1>. QED  BY <1>2, <1>5, <1>6, <1>7

\* The board written to is the one in the socket of the port; unless boards
\* were moved it is the target's.
LEMMA FlashSteps ==
  ASSUME UpdateInv, FlashNothing \/ StartFlash \/ WriteFlash \/ Reset \/ FlashFails
  PROVE  UpdateInv'
<1>. USE DEF UpdateInv
<1>1. /\ UNCHANGED <<inSocket, listVars, chosen, wanted, image, rounds, answering>>
      /\ stage \in {"flash", "write", "reset"} /\ stage' \in {"write", "reset", "verify", "error"}
  BY DEF FlashNothing, StartFlash, WriteFlash, Reset, FlashFails, boardVars
<1>2. Grouping' /\ OneBoard(chosen)' /\ Unmoved' = Unmoved
  BY <1>1, TargetsStay DEF Unmoved
<1>3. Images' /\ VerifiedMeansFlashed'
  BY <1>1 DEF Images, VerifiedMeansFlashed
<1>4. CASE StartFlash
  <2>1. PICK p \in Range(chosen.ports) : flashed' = inSocket[p.socket]
    BY <1>4 DEF StartFlash
  <2>2. p \in Port
    <3>1. chosen.ports \in Seq(Port)
      BY DEF UpdateTypeOK, Target
    <3>. QED  BY <3>1, RangeOfSeq
  <2>3. flashed' \in Boards /\ flashed' # NoBoard /\ (Unmoved => flashed' = p.socket)
    BY <2>1, <2>2, FirmwareUpdateAssumption DEF UpdateTypeOK, Unmoved, Port
  <2>4. firmware' = [firmware EXCEPT ![flashed'] = "torn"] /\ stage' = "write"
    BY <1>4 DEF StartFlash
  <2>5. UpdateTypeOK'
    BY <1>1, <2>3, <2>4 DEF UpdateTypeOK, listVars
  <2>6. Programmed'
    BY <1>1, <1>2, <2>1, <2>3, <2>4 DEF Programmed, OneBoard
  <2>. QED  BY <1>2, <1>3, <2>5, <2>6
<1>5. CASE WriteFlash
  <2>1. PICK fw \in {"new", "dud", "old"} : firmware' = [firmware EXCEPT ![flashed] = fw]
    BY <1>5 DEF WriteFlash
  <2>2. stage = "write" /\ stage' = "reset" /\ flashed' = flashed /\ flashed \in Boards
    BY <1>5 DEF WriteFlash, Programmed, UpdateTypeOK
  <2>3. UpdateTypeOK'
    BY <1>1, <2>1, <2>2 DEF UpdateTypeOK, listVars
  <2>4. firmware'[flashed] = fw
    BY <2>1, <2>2 DEF UpdateTypeOK
  <2>5. Programmed'
    BY <1>1, <1>2, <2>2, <2>4 DEF Programmed
  <2>. QED  BY <1>2, <1>3, <2>3, <2>5
<1>6. CASE FlashNothing \/ Reset \/ FlashFails
  <2>1. UNCHANGED <<firmware, flashed>>
        /\ \/ stage = "flash" /\ image = <<>> /\ stage' = "verify"
           \/ stage = "reset" /\ stage' = "verify"
           \/ stage' = "error"
    BY <1>6 DEF FlashNothing, Reset, FlashFails, boardVars
  <2>2. UpdateTypeOK'
    BY <1>1, <2>1 DEF UpdateTypeOK, Ended, listVars
  <2>3. Programmed'
    BY <1>1, <1>2, <2>1 DEF Programmed
  <2>. QED  BY <1>2, <1>3, <2>2, <2>3
<1>. QED  BY <1>4, <1>5, <1>6

\* A board that answers as the host selected is that host; unless boards were
\* moved it is the board written to.
LEMMA VerifyStep ==
  ASSUME UpdateInv, VerifyRound PROVE UpdateInv'
<1>. USE DEF UpdateInv
<1>1. /\ UNCHANGED <<boardVars, listVars, chosen, wanted, image, flashed>>
      /\ stage = "verify" /\ stage' \in {"verified", "error", "verify"}
      /\ answering' \subseteq {b \in Boards : Running(b)}
      /\ stage' = "verified" => chosen.host \in answering'
      /\ rounds' \in 0 .. MaxRounds
  BY FirmwareUpdateAssumption DEF VerifyRound, Answers, UpdateTypeOK
<1>2. Grouping' /\ OneBoard(chosen)' /\ Unmoved' = Unmoved
  BY <1>1, TargetsStay DEF Unmoved, boardVars
<1>3. UpdateTypeOK'
  BY <1>1 DEF UpdateTypeOK, Ended, boardVars, listVars
<1>4. Images' /\ Programmed'
  BY <1>1, <1>2 DEF Images, Programmed, boardVars
<1>5. VerifiedMeansFlashed'
  <2>. SUFFICES ASSUME stage' = "verified" PROVE VerifiedMeansFlashed'
    BY DEF VerifiedMeansFlashed
  <2>1. chosen.host \in answering' /\ Running(chosen.host) /\ chosen.host # NoBoard
    BY <1>1, FirmwareUpdateAssumption
  <2>2. image # <<>> /\ Unmoved => flashed = chosen.host /\ Running(flashed)
    BY <1>1, <2>1 DEF Programmed, Running
  <2>. QED  BY <1>1, <2>1, <2>2 DEF VerifiedMeansFlashed, Running, Unmoved, boardVars
<1>. QED  BY <1>2, <1>3, <1>4, <1>5

LEMMA UpdateInvariant == UpdateInv /\ [UpdateNext]_updateVars => UpdateInv'
<1>. SUFFICES ASSUME UpdateInv, [UpdateNext]_updateVars PROVE UpdateInv'
  OBVIOUS
<1>1. CASE UNCHANGED updateVars
  BY <1>1 DEF UpdateInv, UpdateTypeOK, Grouping, OneBoard, Unmoved, Images, LocalImage, Programmed,
       VerifiedMeansFlashed, Running, updateVars
<1>2. CASE UpdateNext
  BY <1>2, BreakStep, ReplugStep, ListPortsStep, GroupPortStep, AskTargetStep, SelectSteps,
     DownloadStep, ResolveSteps, FlashSteps, VerifyStep DEF UpdateNext
<1>. QED  BY <1>1, <1>2

\* Every step of the update keeps what it works on well-formed, whatever the
\* number of ports, payloads and rounds (update_remote_host, update.rs).
THEOREM UpdateTypes == UpdateSpec => []UpdateTypeOK
<1>1. UpdateInv => UpdateTypeOK
  BY DEF UpdateInv
<1>. QED  BY UpdateBegins, UpdateInvariant, <1>1, PTL DEF UpdateSpec

\* What is written to a board is the user's file, or all payloads of the
\* version, made for the host that was shown and exactly as the manifest
\* describes them; and unless boards were moved, the board is the one that gave
\* that identifier, over whichever of its ports it is flashed.
THEOREM UpdateFlashesWhatWasChosen == UpdateSpec => []FlashesWhatWasChosen
<1>1. UpdateInv => FlashesWhatWasChosen
  BY DEF UpdateInv, Images, Programmed, Unmoved, LocalImage, FlashesWhatWasChosen
<1>. QED  BY UpdateBegins, UpdateInvariant, <1>1, PTL DEF UpdateSpec

\* "Update verified" names the host selected, which answered; unless boards
\* were moved it is the one that was flashed, running some firmware.
THEOREM UpdateVerifiedMeansFlashed == UpdateSpec => []VerifiedMeansFlashed
<1>1. UpdateInv => VerifiedMeansFlashed
  BY DEF UpdateInv
<1>. QED  BY UpdateBegins, UpdateInvariant, <1>1, PTL DEF UpdateSpec
================================================================================
