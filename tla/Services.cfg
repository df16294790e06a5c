CONSTANTS
  Services = {"ftp", "smtp", "mysql", "redis", "postgresql", "pop3", "imap", "dns", "questdb"}
  FtpNames = {"root", "www"}
  FtpPaths <- MCPaths
  Home <- MCHome
  Parent <- MCParent
  CwdSize = 6
  FtpGrantOn = 2
  FtpMaxAttempts = 3
  FtpMaxBatch = 2
  FtpMaxLines = 4
  SmtpBufSize = 16
  SmtpDataMax = 5
  SmtpLines <- MCSmtpLines
  SmtpMaxLines = 4
  SmtpCredentials <- MCCredentials
  MySqlNames = {"root", "sql"}
  MySqlSizes <- MCMySqlSizes
  ByteMod = 2
  MySqlMaxPackets = 2
  RedisSize = 24
  RedisMaxArgs = 2
  RedisArgSize = 3
  RedisAuth <- MCRedisAuth
  RedisClosers <- MCRedisClosers
  RedisSends <- MCRedisOddSends
  RedisMaxSends = 2
  RedisMaxBatch = 2
  RedisMaxRecvs = 3
  StartBodies <- MCBodies
  ParameterLists <- MCLists
  Leftovers <- MCLeftovers
  PasswordTexts <- MCPasswords
  QuestSegments <- MCQuestSegments
  StartRoom = 9
  UserSize = 3
  QuestMaxRecvs = 3
  Pop3Segments <- MCPop3Segments
  ImapSegments <- MCImapSegments
  ImapWords <- MCImapWords
  NameSize = 4
  TagSize = 3
  Pop3Max = 4
  ImapMax = 2
  DnsBufSize = 40
  DnsNameSize = 6
  DnsMaxLabels = 3
  DnsSegments <- MCDnsSegments
  DnsQuestions <- MCQuestions
SPECIFICATION Spec
INVARIANTS
   WithinBuffers
  TrailTellsLogin OneEventOneReply
  SmtpCapturesMeant SmtpInStep
  RefusalsInStep
  RedisRecordsAll RedisEndsOnRequest
  PgUserAsNamed QuestInStep
  Pop3PairsHalves ImapLoginAsMeant
  DnsAnswersAsked
