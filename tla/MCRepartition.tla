--------------------------- MODULE MCRepartition ---------------------------
\* Model checking of Repartition: sizes in units of 4 MiB, small enough that
\* all plans happen: shrink, grow, no storage, one merged partition.
EXTENDS Repartition
============================================================================
