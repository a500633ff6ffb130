------------------------------ MODULE KeyFile ------------------------------
(* Which authorized_keys file sshd reads for the account that runs the panel,
   and how sshauth.KeyFile finds out on Windows. *)
EXTENDS Integers, Sequences, FiniteSets

(* An account: its membership of the Administrators group, what that group is
   called on this installation, whether the account is one of this machine or of
   a domain, whether the environment names the user, and whether the process was
   started elevated (otherwise UAC has marked the group deny-only in its token). *)
Accounts == [member : {"directly", "nested", "no"}, group : {"Administrators", "Administratoren"},
             local : BOOLEAN, named : BOOLEAN, elevated : BOOLEAN]

(* S-1-5-32-544 as Windows lays it out, and as the code writes it down. *)
BuiltinAdministrators == <<1, 2, 0, 0, 0, 0, 0, 5, 32, 0, 0, 0, 32, 2, 0, 0>>
administratorsSID     == <<1, 2, 0, 0, 0, 0, 0, 0, 0, 5, 32, 0, 0, 0, 32, 2, 0, 0>>

(* The part of a SID's bytes that counts is given by its second byte. *)
SidPart(sid) == SubSeq(sid, 1, sid[2] * 4 + 8)
sidEqual(got, want) == got[2] * 4 + 8 <= Len(want)
                       /\ SidPart(got) = SubSeq(want, 1, got[2] * 4 + 8)

(* What the process's token lists, enabled or not, and what of it is enabled. *)
TokenGroups(a)  == IF a.member = "no" THEN {} ELSE {BuiltinAdministrators}
EnabledGroups(a) == IF a.elevated THEN TokenGroups(a) ELSE {}

tokenHasGroup(a, want) == \E sid \in TokenGroups(a) : sidEqual(sid, want)
CheckTokenMembership(a, sid) == SidPart(sid) \in EnabledGroups(a)
LookupAccountSid(a, sid) == IF SidPart(sid) = BuiltinAdministrators THEN a.group ELSE ""

tokenInAdministrators(a) == CheckTokenMembership(a, administratorsSID)
tokenIsElevatable(a)     == tokenHasGroup(a, administratorsSID)

isAdministratorsName(a, name) ==
  name = "Administrators" \/ name = LookupAccountSid(a, administratorsSID)

(* NetUserGetLocalGroups: the groups the account is in directly, by name.  It is
   asked for the bare name, without a domain, and knows the machine's accounts by
   that; for another it fails, and the code takes that for no group. *)
LocalGroups(a) == IF a.local /\ a.member = "directly" THEN {a.group} ELSE {}

inAdminsByGroupLookup(a) == \E g \in LocalGroups(a) : isAdministratorsName(a, g)

IsAdmin(a) ==
  \/ a.named /\ inAdminsByGroupLookup(a)
  \/ tokenInAdministrators(a) \/ tokenIsElevatable(a)

WhichFile(a) == IF IsAdmin(a) THEN "shared" ELSE "own"

(* "Match Group administrators" in the stock sshd_config. *)
SshdReads(a) == IF a.member = "no" THEN "own" ELSE "shared"

(* For which accounts the panel edits the file sshd reads, however it was
   started: for those that are no administrators, and of the administrators for
   the machine's own accounts alone that are named by the environment and in the
   group by themselves, where the group has its English name. *)
RightFile ==
  \A a \in Accounts :
    WhichFile(a) = SshdReads(a)
      <=> \/ a.member = "no"
          \/ a.member = "directly" /\ a.local /\ a.named /\ a.group = "Administrators"
=============================================================================
