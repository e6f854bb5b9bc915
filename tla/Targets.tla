------------------------------- MODULE Targets -------------------------------
(***************************************************************************)
(* Which hosts a scan covers (watchpost/discovery.py: expand_targets and   *)
(* discover; watchpost/directory.py: fetch_computers).  A target or an     *)
(* exclusion is the list of addresses it stands for: a network or a range, *)
(* whose size is checked before it is expanded, or one address or name; or *)
(* it is one that cannot be expanded.                                      *)
(***************************************************************************)
EXTENDS Lists, Naturals

CONSTANTS MaxHosts,    \* max_hosts
          MaxExcluded, \* what an exclusion is measured against: 2^32
          Addresses,   \* addresses and host names
          Ranked,      \* every host name, in the order of sorting
          Hyphenated   \* those with a hyphen in them

\* What stands for an error is no address.
ASSUME TargetsAssumption ==
  /\ MaxHosts \in Nat /\ MaxExcluded \in Nat
  /\ Ranked \in Seq(Addresses) /\ Hyphenated \subseteq Addresses /\ "refused" \notin Addresses

\* A target: a "block" is a network or a range, "one" is an address or a name, and
\* "wrong" is a network or a range that is malformed or ends before it starts. An IPv6
\* network counts its first address too, which is not among its hosts.
Target ==
  {t \in [kind : {"block", "one", "wrong"}, size : Nat, hosts : Seq(Addresses)] :
     t.kind = "block" => t.size \in {Len(t.hosts), Len(t.hosts) + 1}}

\* An account of the directory; what discovery is asked for: the credentials to use
\* instead of those of the configuration, whether a target has a reference left in it,
\* and whether the directory answers.
Account == [name : Addresses \union {""}, disabled : BOOLEAN, logon : {"recent", "stale", "never"},
            wanted : BOOLEAN]
ScanRequest == [targets : Seq(Target), exclude : Seq(Target), computers : Seq(Account),
                credentials : Seq(STRING), unresolved : BOOLEAN,
                include_disabled : BOOLEAN, answers : BOOLEAN]

Single(host) == [kind |-> "one", size |-> 1, hosts |-> <<host>>]

\* An error ends discovery before anything is scanned.
Refused == <<"refused">>

-----------------------------------------------------------------------------
(* The directory: an account has a DNS name ("" for none), may be disabled,  *)
(* logged on recently, long ago or never, and has a system that os_include   *)
(* mentions or not.                                                          *)

Computer(name, disabled, logon, wanted) ==
  [name |-> name, disabled |-> disabled, logon |-> logon, wanted |-> wanted]

\* fetch_computers: the accounts that are kept; the others are skipped, with the
\* reason.
IsKept(c, include_disabled) ==
  /\ c.name # "" /\ (c.disabled => include_disabled) /\ c.logon = "recent" /\ c.wanted

\* keep.sort and dir_info: every name once, in order.
DirectoryNames(computers, include_disabled) ==
  Only(Ranked, {c.name : c \in {c \in Range(computers) : IsKept(c, include_disabled)}})

-----------------------------------------------------------------------------
\* Faulty variant: a block that takes the last place does not fit.
Fits_Strict(out, spec) == spec.kind = "block" => spec.size < MaxHosts - Len(out)

\* one: a block must fit beside what was expanded before it.
Fits(out, spec) == spec.kind = "block" => spec.size <= MaxHosts - Len(out)

\* An exclusion may be larger.
Excludable(spec) == spec.kind = "block" => spec.size <= MaxExcluded

\* Faulty variant: what an earlier target covers is scanned again.
Added_Again(out, spec, excluded) == out \o Only(spec.hosts, Range(spec.hosts) \ excluded)

\* one: a network or a range is parsed, and anything with a hyphen is taken for a range
\* of addresses, which a name is not.
Raises(spec) ==
  spec.kind = "wrong" \/ (spec.kind = "one" /\ Range(spec.hosts) \cap Hyphenated # {})

\* What was expanded, and the addresses of a target that are neither in it nor excluded.
Added(out, spec, excluded) ==
  LET upTo[i \in 0..Len(spec.hosts)] ==
        IF i = 0 THEN out
        ELSE LET seen == upTo[i - 1]
             IN  IF spec.hosts[i] \in Range(seen) \union excluded THEN seen ELSE Append(seen, spec.hosts[i])
  IN  upTo[Len(spec.hosts)]

\* The first loop of expand_targets: what it collects, and whether it gets through.
Excluded(exclude) == UNION {Range(x.hosts) : x \in Range(exclude)}

AllExcludable(exclude) == \A x \in Range(exclude) : ~ Raises(x) /\ Excludable(x)

\* The second one, after each of the targets.
Expanded(targets, excluded) ==
  LET upTo[i \in 0..Len(targets)] ==
        IF i = 0 THEN <<>>
        ELSE LET out == upTo[i - 1]
             IN  IF out = Refused \/ Raises(targets[i]) \/ ~ Fits(out, targets[i]) THEN Refused
                 ELSE Added(out, targets[i], excluded)
  IN  upTo

\* expand_targets
Expand(targets, exclude) ==
  LET all == Expanded(targets, Excluded(exclude))[Len(targets)]
  IN  IF ~ AllExcludable(exclude) \/ all = Refused \/ Len(all) > MaxHosts THEN Refused ELSE all

\* discover: the targets of a request, those of the directory last.
AllTargets(r) ==
  LET names == DirectoryNames(r.computers, r.include_disabled)
  IN  r.targets \o [i \in DOMAIN names |-> Single(names[i])]

\* What becomes of a request where there are these credentials: the hosts to scan, or an
\* error of its credentials, a reference, the directory, no targets or their expansion.
Scanned(r, known) ==
  IF ~ (Range(r.credentials) \subseteq known) \/ r.unresolved \/ ~ r.answers \/ AllTargets(r) = <<>>
  THEN Refused ELSE Expand(AllTargets(r), r.exclude)
=============================================================================
