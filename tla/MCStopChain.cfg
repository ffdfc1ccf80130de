CONSTANTS
  CommandTimeout = 1
  HeartbeatDead = 1
  StoppedSpeed = 1
  DecelStep = 1
  Horizon = 5
  MaxCommandAge = 1
  HeartbeatDegraded = 2
  MaxSpeed = 2
  MaxStall = 1
  QueueCap = 1
  RequestedSpeeds <- MCRequestedSpeeds
  WheelSpeeds <- MCWheelSpeeds
  Brake = 1
  FirmwareTimeout = 3
SPECIFICATION ChainSpec
INVARIANTS VehicleStopsWithoutVelocity RecoversInTime
