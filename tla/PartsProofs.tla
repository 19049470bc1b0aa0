------------------------------ MODULE PartsProofs ------------------------------
(***************************************************************************)
(* The parts that share no state, together: what the composition does is   *)
(* for each part a behaviour of its own specification, so that what is     *)
(* proved of the parts holds of the composition.                           *)
(***************************************************************************)
EXTENDS MCParts, TransportProofs, ProvisioningProofs, DiscoveryProofs, ResourceProofs

\* A step of the composition is a step of every part, or leaves it alone.
LEMMA PartsStep ==
  [PartsNext]_partsVars =>
    /\ [StreamNext]_streamVars
    /\ [LinkNext]_linkVars
    /\ [TokenNext]_tokenVars
    /\ [UpdateNext]_updateVars
    /\ [ResourceNext]_resourceVars
    /\ [TransitionNext]_transitionVars
    /\ [MdnsNext]_mdnsVars
    /\ [UsbNext]_usbVars
<1>. SUFFICES ASSUME [PartsNext]_partsVars
              PROVE  /\ [StreamNext]_streamVars
                     /\ [LinkNext]_linkVars
                     /\ [TokenNext]_tokenVars
                     /\ [UpdateNext]_updateVars
                     /\ [ResourceNext]_resourceVars
                     /\ [TransitionNext]_transitionVars
                     /\ [MdnsNext]_mdnsVars
                     /\ [UsbNext]_usbVars
  OBVIOUS
<1>1. CASE StreamStep
  BY <1>1 DEF StreamStep
<1>2. CASE LinkStep
  BY <1>2 DEF LinkStep
<1>3. CASE TokenStep
  BY <1>3 DEF TokenStep
<1>4. CASE UpdateStep
  BY <1>4 DEF UpdateStep
<1>5. CASE ResourceStep
  BY <1>5 DEF ResourceStep
<1>6. CASE TransitionStep
  BY <1>6 DEF TransitionStep
<1>7. CASE MdnsStep
  BY <1>7 DEF MdnsStep
<1>8. CASE UsbStep
  BY <1>8 DEF UsbStep
<1>9. CASE UNCHANGED partsVars
  BY <1>9 DEF partsVars
<1>. QED  BY <1>1, <1>2, <1>3, <1>4, <1>5, <1>6, <1>7, <1>8, <1>9 DEF PartsNext

\* Main result: the composition that is checked implements the specification
\* of each of its parts.
THEOREM PartsImplemented ==
  PartsSpec =>
    /\ StreamSpec
    /\ LinkSpec
    /\ TokenSpec
    /\ UpdateSpec
    /\ ResourceSpec
    /\ TransitionSpec
    /\ MdnsSpec
    /\ UsbSpec
<1>1. PartsInit => /\ StreamInit
                  /\ LinkInit
                  /\ TokenInit
                  /\ UpdateInit
                  /\ ResourceInit
                  /\ TransitionInit
                  /\ MdnsInit
                  /\ UsbInit
  BY DEF PartsInit
<1>. QED  BY <1>1, PartsStep, PTL
          DEF PartsSpec, StreamSpec, LinkSpec, TokenSpec, UpdateSpec, ResourceSpec, TransitionSpec,
              MdnsSpec, UsbSpec

\* Main result: every part keeps its types and bounds, among them the sizes of
\* the frame buffer, of a spectral download and of the event channels.
THEOREM PartsTypes == PartsSpec => []TypesOK
<1>1. /\ StreamTypeOK /\ LinkTypeOK /\ TokenTypeOK /\ UpdateTypeOK
      /\ ResourceTypeOK /\ TransitionTypeOK /\ MdnsTypeOK /\ UsbTypeOK
      => TypesOK
  BY DEF TypesOK
<1>. QED  BY <1>1, PartsImplemented, StreamTypes, LinkTypes, TokenTypes, UpdateTypes,
             ResourceTypes, TransitionTypes, MdnsTypes, UsbTypes, PTL

\* Main result: what is proved of a part on its own holds of the composition,
\* whatever the sizes of all of them.
THEOREM PartsSafe ==
  PartsSpec =>
    /\ []Resyncs
    /\ []OnlyTheTokensHost
    /\ []DecryptableUnlessOverlapped
    /\ []StoredWifiTokensWork
    /\ []TokensAreKept
    /\ []FlashesWhatWasChosen
    /\ []VerifiedMeansFlashed
    /\ []DownloadsAll
    /\ []ListsWholeOrNothing
    /\ []OkTellsTheEnd
    /\ []EndpointsAreLatest
    /\ []OneRuntimePerDevice
    /\ []NoConnectionLeaks
    /\ []ReportedInOrder
    /\ []SettledListIsCurrent
BY PartsImplemented, StreamResyncs, TalksToTheHost, PeerDecrypts, StoredTokensWork,
   TokensKept, UpdateFlashesWhatWasChosen, UpdateVerifiedMeansFlashed, SamplesDownloaded,
   ListingsWholeOrNothing, TransitionsComplete, LatestEndpoints, OneUsbRuntime,
   NoUsbConnectionLeaks, UsbReportsInOrder, UsbListIsCurrent, PTL
================================================================================
