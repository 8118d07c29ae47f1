--------------------------- MODULE MCStandardsWatch ---------------------------
(* Instances of StandardsWatch for TLC.                                    *)
EXTENDS StandardsWatch

Src(kind, key) == [kind |-> kind, key |-> key]
RFC7519 == Src("rfc", "RFC7519")
AllErrata == Src("errata", "")

MCItems == {"RFC7519", "erratum"}
MCSource == [i \in MCItems |-> IF i = "erratum" THEN AllErrata ELSE RFC7519]
MCAbout == [i \in MCItems |-> RFC7519]

Std == [status |-> "PS", updatedBy |-> {}, obsoletedBy |-> {}]
MCValues == [i \in MCItems |-> IF i = "erratum" THEN {Absent, [status |-> "Reported"], [status |-> "Verified"]}
                               ELSE {Std, [Std EXCEPT !.updatedBy = {"RFC8725"}]}]
MCInitially == [i \in MCItems |-> IF i = "erratum" THEN [status |-> "Reported"] ELSE Std]
MCConfigs == {{RFC7519}, {}}
=============================================================================
