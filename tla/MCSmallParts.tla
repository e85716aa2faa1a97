----------------------------- MODULE MCSmallParts -----------------------------
(***************************************************************************)
(* The parts whose instances are small, each on its own, in one run: the   *)
(* monitor of the media path, the choice of codecs, the example            *)
(* application, and what the end-to-end tests drive a connection with.  A  *)
(* behaviour is one of these; the others rest in a state in which nothing  *)
(* of theirs can happen.                                                   *)
(***************************************************************************)
EXTENDS MediaPath, Applications, MCCommandLines

VARIABLE part  \* the one that runs

monitorVars == vars
applicationVars == <<sumomoVars, testVars, proxyVars>>
partVars == <<part, monitorVars, selectionVars, applicationVars>>

-----------------------------------------------------------------------------
(* The other parts at rest                                                 *)

SelectionRests ==
  /\ machine = CHOOSE m \in Machines : TRUE
  /\ args = CHOOSE a \in Arguments : TRUE
  /\ step = "refused"
  /\ remaining = <<>>
  /\ config = [preference |-> <<>>, capabilities |-> <<>>,
               audioPreference |-> <<>>, audioCapabilities |-> <<>>]
  /\ connect = NoConnect

SumomoRests ==
  /\ main = "returned"
  /\ run = "ended" /\ runResult = "error" /\ runHandle = "fresh"
  /\ capturer = [at |-> "none", stop |-> FALSE]
  /\ command = "none"
  /\ remote = {} /\ appEvents = <<>> /\ tracks = {} /\ sinks = {}
  /\ frames = <<>>
  /\ renderer = [texture |-> NoTexture, running |-> TRUE]
  /\ duration = "none"
  /\ rendererError = FALSE
  /\ result = "error"

PartInit ==
  /\ part \in {"monitor", "selection", "sumomo", "test", "proxy"}
  /\ Init
  /\ IF part = "selection" THEN SelectionInit ELSE SelectionRests
  /\ IF part = "sumomo" THEN SumomoInit ELSE SumomoRests
  /\ TestInit
  /\ ProxyInit

PartNext ==
  /\ UNCHANGED part
  /\ \/ /\ part = "monitor"
        /\ Next
        /\ UNCHANGED <<selectionVars, applicationVars>>
     \/ /\ part = "selection"
        /\ SelectionNext
        /\ UNCHANGED <<monitorVars, applicationVars>>
     \/ /\ part = "sumomo"
        /\ SumomoNext
        /\ UNCHANGED <<monitorVars, selectionVars, testVars, proxyVars>>
     \/ /\ part = "test"
        /\ TestNext
        /\ UNCHANGED <<monitorVars, selectionVars, sumomoVars, proxyVars>>
     \/ /\ part = "proxy"
        /\ ProxyNext
        /\ UNCHANGED <<monitorVars, selectionVars, sumomoVars, testVars>>

PartSpec == PartInit /\ [][PartNext]_partVars /\ Fairness /\ SumomoFairness /\ ProxyFairness

-----------------------------------------------------------------------------
(* Properties of several parts                                             *)

\* Each variable of the part that runs holds a value of its type.
PartTypeOK ==
  /\ part = "monitor" => TypeOK
  /\ part = "selection" => SelectionTypeOK
  /\ part = "sumomo" => SumomoTypeOK
  /\ part = "test" => TestTypeOK
  /\ part = "proxy" => ProxyTypeOK

\* The codecs of a context are the ones that were chosen, the formats that it offers, of
\* video and of audio, are the ones that its factories make, and a connection asks for the
\* one that it is about to send.
CodecsAreAsChosen ==
  SelectionIsAsTold /\ AdvertisedIsMade /\ AudioAdvertisedIsMade /\ ConnectAsksForWhatIsSent

\* Once asked to end, sumomo and the connections of the proxy do.
ApplicationsEnd == MainEnds /\ DropEndsAll
=============================================================================
