----------------------------- MODULE MCRocketGem -----------------------------
(* Instances of RocketGem for TLC.                                          *)
EXTENDS RocketGem, TLC

\* iommu_domain_id values: negative, the two slots of the pool, too large.
MCDomainIds == {-1, 0, 1, 2}

Symmetry == Permutations(Bos) \cup Permutations(Objs) \cup Permutations(Aperture)
=============================================================================
