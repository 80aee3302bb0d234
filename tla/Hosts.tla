------------------------------- MODULE Hosts -------------------------------
(***************************************************************************)
(* URLs and host names.  A host is a sequence of labels, <<"site", "com">>; *)
(* the code compares hosts in two ways: the suffix walk shared by the      *)
(* blocker, the https rewriter and the style sheets, and GURL::DomainIs.   *)
(***************************************************************************)
EXTENDS Naturals, Sequences

CONSTANTS
  HostNames,   \* the hosts of the model
  Urls,        \* records [scheme, host, path]
  NoUrl        \* the empty GURL

\* Is d the host h itself or a parent domain of it?
IsDomainOf(d, h) ==
  /\ Len(d) <= Len(h)
  /\ SubSeq(h, Len(h) - Len(d) + 1, Len(h)) = d

\* GURL::DomainIs(d) of a URL with host h; an empty d never matches.
DomainIs(h, d) == d # <<>> /\ IsDomainOf(d, h)

\* Mutant: the walk stops one label too early.
WalkStepsMutShort(h) == 1 .. (Len(h) - 2)

\* The candidates of the walk: cut one label at a time off the front, stop at the
\* last label ("We do this to avoid checking some TLDs").  Step i drops i - 1 labels.
WalkSteps(h) == 1 .. (Len(h) - 1)
Suffix(h, i) == SubSeq(h, i, Len(h))

ForceHttps(url) == [url EXCEPT !.scheme = "https"]

ASSUME UrlConstants ==
  /\ NoUrl \notin Urls
  /\ \A u \in Urls : u.host \in HostNames
  /\ \A u \in Urls : u.scheme = "http" => ForceHttps(u) \in Urls
  /\ \A h \in HostNames : h \in Seq(STRING) /\ \A i \in WalkSteps(h) : Suffix(h, i) \in HostNames
=============================================================================
