SPECIFICATION DeliverySpec
CONSTANTS
  Notices <- OneNotice  Devices <- OneDevice  PushWorkers <- TwoWorkers
  Answering <- OneAnswers  MaxAttempts = 3  NotQueued = NotQueued
  Simulations <- TwoSimulations  SimulationKeys <- TwoKeys  PoolSize = 2  MaxVersion = 3
  Incoming <- TwoIncoming  Outgoing <- OneOutgoing  NoMessage = NoMessage  NoSync = NoSync
INVARIANTS DeliveryTypeOK QueueTellsSends CyclesAreTold
PROPERTIES OutcomesAreFinal PendingEnds SimulationsEnd ConversationKeepsUp
