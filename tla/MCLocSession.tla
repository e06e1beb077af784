---------------------------- MODULE MCLocSession ----------------------------
EXTENDS LocSession, TLC

\* Four adapter bits: position reports, engine status, network-initiated
\* requests, which are wanted outside sessions too, and batching, which this
\* LocApi may not enable.
MCBits   == {"pos", "status", "ni", "batch"}
MCEvents == {"POSITION", "ENGINE_STATE", "NI", "BATCH"}
MCEventsOf == ("pos" :> {"POSITION"}) @@ ("status" :> {"ENGINE_STATE"})
              @@ ("ni" :> {"NI"}) @@ ("batch" :> {"BATCH"})
MCSessionEvents == {"POSITION", "ENGINE_STATE"}
MCExcluded == {"batch"}
\* What the engine asks for at start-up, and a later request for more.
MCMasks == {{"pos", "status"}, {"ni", "batch"}}
=============================================================================
