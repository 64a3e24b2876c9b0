---------------------------- MODULE MCDevServer ----------------------------
(* Two folders, one of which may not exist yet; manifests that name either *)
(* of them and one that does not parse; specs that compile, do not compile *)
(* or do not load.                                                         *)
EXTENDS DevServer

MCFolders == {"d1", "d2"}
MCManifests ==
    [m \in {"m1", "m2", "broken"} |-> [ok |-> m # "broken", specs |-> IF m = "m2" THEN "d2" ELSE "d1"]]

TheContents ==
    [p \in {Manifest, Plugin, Given} \cup MCFolders |->
        CASE p = Manifest -> {"m1", "m2", "broken"}
          [] p = "d1" -> {"v1", "unloadable"}
          [] p = "d2" -> {"none", "v1", "bad"}
          [] OTHER -> {"v1", "v2"}]
MCContents == TheContents

=============================================================================
