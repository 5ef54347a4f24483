---------------------------- MODULE MCModalFlow ----------------------------
(* A small instance of ModalFlow for TLC. *)
EXTENDS ModalFlow, TLC

\* A stable stream with more versions than the menu holds, and a nightly one.
MCTagsOf == "4-stable" :> {"4.18.1", "4.18.2", "4.19.1"} @@ "4.19-nightly" :> {"4.19.n"}
MCMinorOf == "4.18.1" :> "4.18" @@ "4.18.2" :> "4.18" @@ "4.19.1" :> "4.19" @@ "4.19.n" :> "4.19"
MCStartsWith == {<<t, MCMinorOf[t]>> : t \in DOMAIN MCMinorOf}
MCParamsFor == "aws" :> {"fips"} @@ "hypershift-hosted" :> {}
=============================================================================
