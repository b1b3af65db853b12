SPECIFICATION MCSpec
CONSTANTS
  Packet <- Packets
  Loads <- PacketLoads
  Imei <- Devices
  None <- NoTime
  MaxAttempts = 2
  Conn <- Conns
  Loopback <- Own
  Streams <- Sending
  MaxConnections = 1
  MaxPacket = 4
  MaxBuffer = 4
  MaxDenials = 1
  Batch <- Batches
  Items = 2
  PoolSize = 2
  Concurrency = 1
CHECK_DEADLOCK FALSE
INVARIANT TypesOK FramingIgnoresChunks SlotsTracked ShutdownIsClean LastSeenStored StoredIsComplete DuplicatesFromLateReplies ConnectionsReturned
PROPERTY ShutdownCompletes ConnectionReadsOn BatchesEnd
