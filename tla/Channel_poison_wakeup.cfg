\* Does poisoning release a producer blocked on a full channel?
CONSTANTS
    Cap = 1
    NMsg = 3
    ConsumerPoisons = TRUE
SPECIFICATION Spec
PROPERTY PoisonReleasesProducer
