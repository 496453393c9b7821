------------------------------ MODULE UsbAuditorMC ------------------------------
(* A stick, two machines of which one's name begins with the other's, machines *)
(* on which any one check, or any of the leniently judged ones, cannot be read. *)
EXTENDS UsbAuditor, TLC

Good == [firewall |-> [p \in Profiles |-> TRUE], defender |-> [enabled |-> TRUE, realtime |-> TRUE, age |-> 0],
         bitlocker |-> [volume |-> "FullyEncrypted", protection |-> "On", progress |-> 100, protectors |-> 1],
         windows_update |-> 10, services |-> [s \in Services |-> Expected(s)],
         registry |-> [k \in RegistryKeys |-> "expected"], setup |-> [c \in SetupChecks |-> "expected"]]

Without(unread) ==
    [c \in DOMAIN Good |->
        CASE c = "services" -> [s \in Services |-> IF s \in unread THEN Unread ELSE Good.services[s]]
          [] c = "registry" -> [k \in RegistryKeys |-> IF k \in unread THEN Unread ELSE "expected"]
          [] c = "setup" -> [v \in SetupChecks |-> IF v \in unread THEN Unread ELSE "expected"]
          [] OTHER -> IF c \in unread THEN Unread ELSE Good[c]]

Lenient == SetupChecks \cup {"SMBv1"}

McMachines ==
    ("PC" :> {Without(s) : s \in {{}, {"bitlocker"}, {"xbox", "wifi_profiles"}, Lenient, Lenient \ {"wifi_profiles"}, Implemented}})
      @@ ("PC_1" :> {Good, [Good EXCEPT !.firewall = [p \in {"Domain"} |-> TRUE]]})

McCovers == {<<"PC", "PC_1">>}

McVolumes == {Unread} \cup [volume : {"FullyEncrypted", "FullyDecrypted", "EncryptionInProgress", "DecryptionPaused"},
                            protection : {"On", "Off", "Unknown"}, progress : {100}, protectors : {0, 1}]
=================================================================================
