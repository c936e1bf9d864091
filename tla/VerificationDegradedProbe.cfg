\* Judge calls fail between the baseline and the probes.
CONSTANT MaxSources = 1
SPECIFICATION Spec
INVARIANT FlipsAreJudged
