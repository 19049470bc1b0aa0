---------------------------- MODULE RemoteResources ----------------------------
(***************************************************************************)
(* What the commands scan and spectral of main.rs do with a device: ask    *)
(* the host for its fixtures, each fixture for its sources, each source    *)
(* for its emitters - every time first for a count and then for one        *)
(* description per index - and download the samples of an emitter in       *)
(* batches.  A request may fail at any time, and the device may be         *)
(* rebuilt between two of them.                                            *)
(***************************************************************************)
EXTENDS Naturals, Sequences, SequencesExt

CONSTANTS
  Root,           \* the host
  Parts,          \* [the host, fixtures and sources -> the parts each may have]
  BatchSize,      \* SPECTRAL_SAMPLE_BATCH_SIZE
  SampleCapacity, \* samples a SpectralData holds: 401
  U32,            \* 2^32
  SampleCounts,   \* bound: the sample counts a device announces
  MaxChanges      \* bound on the times the device is rebuilt

\* Identifiers are unique: a part is part of one thing.
ASSUME RemoteResourcesAssumption ==
  /\ Root \in DOMAIN Parts /\ \A r \in DOMAIN Parts : IsFiniteSet(Parts[r])
  /\ \A f \in Parts[Root] : f \in DOMAIN Parts /\ Parts[f] \subseteq DOMAIN Parts
  /\ \A p, q \in DOMAIN Parts : p # q => Parts[p] \cap Parts[q] = {}
  /\ \A p \in DOMAIN Parts : Root \notin Parts[p]
  /\ U32 \in Nat \ {0} /\ BatchSize \in 1 .. U32 - 1 /\ SampleCapacity \in Nat
  /\ SampleCounts \subseteq 0 .. U32 - 1 /\ MaxChanges \in Nat

Parents == DOMAIN Parts
Resources == Parents \cup UNION {Parts[r] : r \in Parents}
NoCall == [of |-> Root, count |-> 0, got |-> <<>>, on |-> FALSE]
NoDownload == [count |-> 0, offset |-> 0, samples |-> <<>>, on |-> FALSE]

VARIABLES
  spectral,  \* the command: spectral or scan
  device,    \* [Parents -> the parts each has now]
  toList,    \* the parents still to be asked, the next one first
  listing,   \* the listing under way: the count answered, the parts described
  visited,     \* the emitters visited, with their sources
  toSample,  \* emitters still to be sampled before the next listing
  download,  \* the download under way
  outcome,   \* "running", "error" or "done"
  changes,   \* times the device was rebuilt
  failed,    \* history: some listing failed
  short      \* history: the device sent another number of samples than asked for

resourceVars == <<spectral, device, toList, listing, visited, toSample, download, outcome,
                  changes, failed, short>>

ResourceTypeOK ==
  /\ spectral \in BOOLEAN
  /\ device \in [Parents -> Seq(Resources)] /\ \A r \in Parents : device[r] \in Seq(Parts[r])
  /\ toList \in Seq(Parents)
  /\ listing \in [of : Parents, count : Nat, got : Seq(Resources), on : BOOLEAN]
  /\ listing.got \in Seq(Parts[listing.of]) /\ Len(listing.got) <= listing.count
  /\ visited \in Seq(Parents \X Resources) /\ toSample \in Seq(Resources)
  /\ download \in [count : 0 .. U32 - 1, offset : Nat, samples : Seq(Nat), on : BOOLEAN]
  /\ download.offset <= download.count /\ Len(download.samples) <= SampleCapacity
  /\ outcome \in {"running", "error", "done"}
  /\ changes \in 0 .. MaxChanges /\ failed \in BOOLEAN /\ short \in BOOLEAN

ResourceInit ==
  /\ spectral \in BOOLEAN
  /\ device = [r \in Parents |-> SetToSeq(Parts[r])]
  /\ toList = <<Root>> /\ listing = NoCall /\ visited = <<>> /\ toSample = <<>>
  /\ download = NoDownload /\ outcome = "running"
  /\ changes = 0 /\ failed = FALSE /\ short = FALSE

\* Parts are plugged in, removed or swapped.
Rebuild ==
  /\ outcome = "running" /\ changes < MaxChanges
  /\ \E r \in Parents : \E s \in UNION {SetToSeqs(P) : P \in SUBSET Parts[r]} :
       s # device[r] /\ device' = [device EXCEPT ![r] = s]
  /\ changes' = changes + 1
  /\ UNCHANGED <<spectral, toList, listing, visited, toSample, download, outcome, failed, short>>

(***************************************************************************)
(* fixtures(), sources(), emitters()                                       *)
(***************************************************************************)

Reachable(r) == r = Root \/ \E p \in Parents : r \in Range(device[p])

\* A part is asked by its identifier, whatever it is a part of by now.
AskCount ==
  /\ outcome = "running" /\ ~listing.on /\ toSample = <<>> /\ toList # <<>>
  /\ Reachable(Head(toList))
  /\ listing' = [of |-> Head(toList), count |-> Len(device[Head(toList)]),
                 got |-> <<>>, on |-> TRUE]
  /\ toList' = Tail(toList)
  /\ UNCHANGED <<spectral, device, visited, toSample, download, outcome, changes, failed, short>>

AskInfo ==
  LET i == Len(listing.got) + 1 IN
    /\ listing.on /\ i <= listing.count
    /\ Reachable(listing.of) /\ i <= Len(device[listing.of])
    /\ listing' = [listing EXCEPT !.got = Append(@, device[listing.of][i])]
    /\ UNCHANGED <<spectral, device, toList, visited, toSample, download, outcome, changes,
                   failed, short>>

\* Mutant: what was described before the failure is used.
KeepsSome(parts) == parts

KeptOnFailure(parts) == <<>>

Listed(r, parts) ==
  IF r = Root \/ r \in Parts[Root]
  THEN toList' = parts \o toList /\ UNCHANGED <<visited, toSample>>
  ELSE /\ visited' = visited \o [i \in DOMAIN parts |-> <<r, parts[i]>>]
       /\ toSample' = IF spectral THEN parts ELSE <<>>
       /\ UNCHANGED toList

AllListed ==
  /\ listing.on /\ Len(listing.got) = listing.count
  /\ Listed(listing.of, listing.got)
  /\ listing' = NoCall
  /\ UNCHANGED <<spectral, device, download, outcome, changes, failed, short>>

\* An error, a timeout, an index that is gone: the commands go on with the
\* next parent.
ListingFails ==
  /\ outcome = "running" /\ toSample = <<>>
  /\ \/ /\ listing.on
        /\ Listed(listing.of, KeptOnFailure(listing.got))
     \/ /\ ~listing.on /\ toList # <<>>
        /\ toList' = Tail(toList) /\ UNCHANGED <<visited, toSample>>
  /\ listing' = NoCall /\ failed' = TRUE
  /\ UNCHANGED <<spectral, device, download, outcome, changes, short>>

AllVisited ==
  /\ outcome = "running" /\ ~listing.on /\ toList = <<>> /\ toSample = <<>>
  /\ outcome' = "done"
  /\ UNCHANGED <<spectral, device, toList, listing, visited, toSample, download, changes,
                 failed, short>>

(***************************************************************************)
(* RemoteEmitter::spectral_data                                            *)
(***************************************************************************)

AskSampleCount ==
  /\ outcome = "running" /\ toSample # <<>> /\ ~download.on
  /\ \E n \in SampleCounts : download' = [NoDownload EXCEPT !.count = n, !.on = TRUE]
  /\ short' = FALSE
  /\ UNCHANGED <<spectral, device, toList, listing, visited, toSample, outcome, changes, failed>>

Smaller(a, b) == IF a <= b THEN a ELSE b

\* Mutant: the last batch is asked for whole.
UncappedEnd == (download.offset + BatchSize) % U32

\* u32 arithmetic: a sum past the last u32 wraps in a release build; in a
\* debug build it panics, which is DownloadFails.
BatchEnd == Smaller(download.count, (download.offset + BatchSize) % U32)

\* Mutant: samples that do not fit are dropped.
Truncated(n) == Smaller(n, SampleCapacity - Len(download.samples))

Pushed(n) == n

\* The device answers with a batch of its own size; too many samples end the
\* download, and the command, with InsufficientData.
AskBatch ==
  /\ outcome = "running" /\ download.on /\ download.offset < download.count
  /\ \E n \in 0 .. BatchSize :
       /\ IF Len(download.samples) + Pushed(n) <= SampleCapacity
          THEN /\ download' = [download EXCEPT
                    !.offset = BatchEnd,
                    !.samples = @ \o [i \in 1 .. Pushed(n) |-> download.offset + i]]
               /\ UNCHANGED outcome
          ELSE outcome' = "error" /\ UNCHANGED download
       /\ short' = (short \/ n # BatchEnd - download.offset)
  /\ UNCHANGED <<spectral, device, toList, listing, visited, toSample, changes, failed>>

DownloadEnded == download.on /\ download.offset >= download.count

NextDownload ==
  /\ outcome = "running" /\ DownloadEnded
  /\ download' = NoDownload /\ toSample' = Tail(toSample)
  /\ UNCHANGED <<spectral, device, toList, listing, visited, outcome, changes, failed, short>>

\* A failed request ends the whole command; nothing is written.
DownloadFails ==
  /\ outcome = "running" /\ toSample # <<>>
  /\ outcome' = "error"
  /\ UNCHANGED <<spectral, device, toList, listing, visited, toSample, download, changes,
                 failed, short>>

ResourceNext ==
  \/ Rebuild
  \/ AskCount \/ AskInfo \/ AllListed \/ ListingFails \/ AllVisited
  \/ AskSampleCount \/ AskBatch \/ NextDownload \/ DownloadFails

ResourceSpec == ResourceInit /\ [][ResourceNext]_resourceVars

(***************************************************************************)
(* Properties                                                              *)
(***************************************************************************)

\* Emitters, each with its source, of a device d.
EmittersOf(d, source) == {<<source, e>> : e \in Range(d[source])}
SourcesOf(d, fixture) == UNION {EmittersOf(d, s) : s \in Range(d[fixture])}
AllEmitters(d) == UNION {SourcesOf(d, f) : f \in Range(d[Root])}

\* Fixtures and sources x and y: x and what it is made of come in the order of
\* the device before y and what that is made of.
Precedes(d, x, y) ==
  \E i, j \in DOMAIN d[Root] :
    LET f == d[Root][i]
        g == d[Root][j]
    IN /\ x \in {f} \cup Range(d[f]) /\ y \in {g} \cup Range(d[g])
       /\ i < j \/ (i = j /\ \E m, n \in DOMAIN d[f] : m < n /\ x = d[f][m] /\ y = d[f][n])

ListedInOrder(d, v, w) ==
  \/ Precedes(d, v[1], w[1])
  \/ /\ v[1] = w[1]
     /\ \E m, n \in DOMAIN d[v[1]] : m < n /\ v[2] = d[v[1]][m] /\ w[2] = d[v[1]][n]

\* On a device that is not rebuilt meanwhile, whatever requests fail, emitters
\* are visited once and in the order of the device, and each source contributes
\* all its emitters or none; and when no request fails, the command visits
\* every emitter (scan and download_spectral_data, main.rs 656-835).
ListsWholeOrNothing ==
  changes = 0 =>
    /\ Range(visited) \subseteq AllEmitters(device)
    /\ \A i, j \in DOMAIN visited :
         i < j => ListedInOrder(device, visited[i], visited[j]) /\ visited[i] # visited[j]
    /\ \A s \in Parents : \/ EmittersOf(device, s) \cap Range(visited) = {}
                           \/ EmittersOf(device, s) \subseteq Range(visited)
    /\ outcome = "done" /\ ~failed => AllEmitters(device) \subseteq Range(visited)

\* A download that ends well from a device that sends what it is asked for
\* has all the announced samples, each once and in order; a count past the
\* capacity never ends well (spectral_data, emitter.rs 91-136).
DownloadsAll ==
  DownloadEnded /\ ~short =>
    /\ download.count <= SampleCapacity
    /\ download.samples = [i \in 1 .. download.count |-> i]
================================================================================
