---------------------------- MODULE MCATChannel ----------------------------
(* Instances of ATChannel for TLC. *)
EXTENDS ATChannelService

(* One sender of each kind, its caller keeping the response; a single line  *)
(* is asked for with every prefix.                                          *)
AllCommands ==
    {at_send_command(TRUE), at_send_command_numeric(TRUE),
     at_send_command_sms("+CSQ:", TRUE), at_send_command_multiline("+CSQ:", TRUE)}
    \cup {at_send_command_singleline(p, TRUE) : p \in Prefixes}

(* A command whose response is freed inside the channel, and one whose      *)
(* response is not.                                                         *)
PlainCommands == {at_send_command(FALSE)} \cup
                 {at_send_command_multiline(p, TRUE) : p \in Prefixes}
=============================================================================
