-------------------------- MODULE MCResourceLimits --------------------------
EXTENDS ResourceLimits

\* Unlimited, soft only, hard only, both, equal.
HostLimits == {h \in [cur: {1, 2, RLIM_INFINITY}, max: {2, 5, RLIM_INFINITY}] : h.cur <= h.max}

\* With a minus sign, at and above the width, out of range.
Numbers == {-1, 0, 1, 3, 4, 20}
=============================================================================
