---------------------------- MODULE GeneratedQueries ----------------------------
(* The methods that portal/db/models/autogen_query.go offers for the nine tables  *)
(* of the portal. A method is a pair of the column it works on and the operation: *)
(* AuthKeyQuerySet.KeyEq is <<"key", "Eq">>, AuthKeyUpdater.SetKey is             *)
(* <<"key", "Set">>. Each definition below stands for one block of methods of     *)
(* that file, with the columns as the SQL fragments of the methods spell them.    *)

NumberOps == {"Eq", "Gt", "Gte", "In", "Lt", "Lte", "Ne", "NotIn"}
TextOps == NumberOps \cup {"Like", "Notlike"}
TimeOps == NumberOps \ {"In", "NotIn"}
BoolOps == {"Eq", "In", "Ne", "NotIn"}
NullOps == {"IsNull", "IsNotNull"}

Filters(column, ops) == {column} \X ops
Order(columns) == columns \X {"OrderAscBy", "OrderDescBy"}
Preload(associations) == associations \X {"Preload"}
Set(columns) == columns \X {"Set"}

\* AuthKeyQuerySet: the filters of each column, then ordering, preloading and setting.
AuthKeyCreatedAt == Filters("created_at", TimeOps)
AuthKeyDeletedAt == Filters("deleted_at", TimeOps \cup NullOps)
AuthKeyEnabled == Filters("enabled", BoolOps)
AuthKeyExpiredAt == Filters("expired_at", TimeOps)
AuthKeyID == Filters("id", NumberOps)
AuthKeyKey == Filters("key", TextOps)
AuthKeyMachineID == Filters("machine_id", TextOps)
AuthKeyRole == Filters("role", TextOps)
AuthKeyType == Filters("type", TextOps)
AuthKeyUpdatedAt == Filters("updated_at", TimeOps \cup NullOps)
AuthKeyUserID == Filters("user_id", NumberOps)
AuthKeyUser == Filters("user", NullOps)
AuthKeyOrder == Order({"created_at", "deleted_at", "enabled", "expired_at", "id",
                       "key", "machine_id", "role", "type", "updated_at", "user_id"})
AuthKeyPreload == Preload({"user"})
AuthKeySet == Set({"created_at", "deleted_at", "enabled", "expired_at", "id", "key",
                   "machine_id", "role", "type", "updated_at", "user_id"})
AuthKeyDBSchema == {"id", "created_at", "updated_at", "deleted_at", "user_id",
                    "user", "type", "role", "key", "machine_id", "expired_at",
                    "enabled"}
AuthKeyMethods == UNION {AuthKeyCreatedAt, AuthKeyDeletedAt, AuthKeyEnabled,
                         AuthKeyExpiredAt, AuthKeyID, AuthKeyKey, AuthKeyMachineID,
                         AuthKeyRole, AuthKeyType, AuthKeyUpdatedAt, AuthKeyUserID,
                         AuthKeyUser, AuthKeyOrder, AuthKeyPreload, AuthKeySet}

\* DeviceQuerySet: the filters of each column, then ordering, preloading and setting.
DeviceAddress == Filters("address", TextOps)
DeviceCreatedAt == Filters("created_at", TimeOps)
DeviceDeletedAt == Filters("deleted_at", TimeOps \cup NullOps)
DeviceID == Filters("id", NumberOps)
DeviceLastSeen == Filters("last_seen", TimeOps)
DeviceMachineID == Filters("machine_id", TextOps)
DeviceName == Filters("name", TextOps)
DeviceOS == Filters("os", TextOps)
DeviceRelayServerID == Filters("relay_server_id", NumberOps)
DeviceUpdatedAt == Filters("updated_at", TimeOps \cup NullOps)
DeviceUserID == Filters("user_id", NumberOps)
DeviceUser == Filters("user", NullOps)
DeviceVersion == Filters("version", TextOps)
DeviceOrder == Order({"address", "created_at", "deleted_at", "id", "last_seen",
                      "machine_id", "name", "os", "relay_server_id", "updated_at",
                      "user_id", "version"})
DevicePreload == Preload({"user"})
DeviceSet == Set({"address", "created_at", "deleted_at", "id", "last_seen",
                  "machine_id", "name", "os", "relay_server_id", "updated_at",
                  "user_id", "version"})
DeviceDBSchema == {"id", "created_at", "updated_at", "deleted_at", "user_id",
                   "user", "relay_server_id", "name", "os", "version", "machine_id",
                   "last_seen", "address"}
DeviceMethods == UNION {DeviceAddress, DeviceCreatedAt, DeviceDeletedAt, DeviceID,
                        DeviceLastSeen, DeviceMachineID, DeviceName, DeviceOS,
                        DeviceRelayServerID, DeviceUpdatedAt, DeviceUserID,
                        DeviceUser, DeviceVersion, DeviceOrder, DevicePreload,
                        DeviceSet}

\* GithubUserQuerySet: the filters of each column, then ordering, preloading and setting.
GithubUserAvatarURL == Filters("avatar_url", TextOps)
GithubUserCreatedAt == Filters("created_at", TimeOps)
GithubUserDeletedAt == Filters("deleted_at", TimeOps \cup NullOps)
GithubUserGithubID == Filters("github_id", NumberOps)
GithubUserID == Filters("id", NumberOps)
GithubUserLocation == Filters("location", TextOps)
GithubUserLogin == Filters("login", TextOps)
GithubUserUpdatedAt == Filters("updated_at", TimeOps \cup NullOps)
GithubUserUserID == Filters("user_id", NumberOps)
GithubUserUser == Filters("user", NullOps)
GithubUserOrder == Order({"avatar_url", "created_at", "deleted_at", "github_id",
                          "id", "location", "login", "updated_at", "user_id"})
GithubUserPreload == Preload({"user"})
GithubUserSet == Set({"avatar_url", "created_at", "deleted_at", "github_id", "id",
                      "location", "login", "updated_at", "user_id"})
GithubUserDBSchema == {"id", "created_at", "updated_at", "deleted_at", "user_id",
                       "user", "github_id", "login", "avatar_url", "location"}
GithubUserMethods == UNION {GithubUserAvatarURL, GithubUserCreatedAt,
                            GithubUserDeletedAt, GithubUserGithubID, GithubUserID,
                            GithubUserLocation, GithubUserLogin, GithubUserUpdatedAt,
                            GithubUserUserID, GithubUserUser, GithubUserOrder,
                            GithubUserPreload, GithubUserSet}

\* InvitationQuerySet: the filters of each column, then ordering, preloading and setting.
InvitationCreatedAt == Filters("created_at", TimeOps)
InvitationDeletedAt == Filters("deleted_at", TimeOps \cup NullOps)
InvitationID == Filters("id", NumberOps)
InvitationInvitedByID == Filters("invited_by_id", NumberOps)
InvitationInvitedBy == Filters("invited_by", NullOps)
InvitationNetworkID == Filters("network_id", NumberOps)
InvitationNetwork == Filters("network", NullOps)
InvitationRole == Filters("role", TextOps)
InvitationUpdatedAt == Filters("updated_at", TimeOps \cup NullOps)
InvitationUserID == Filters("user_id", NumberOps)
InvitationUser == Filters("user", NullOps)
InvitationOrder == Order({"created_at", "deleted_at", "id", "invited_by_id",
                          "network_id", "role", "updated_at", "user_id"})
InvitationPreload == Preload({"invited_by", "network", "user"})
InvitationSet == Set({"created_at", "deleted_at", "id", "invited_by_id",
                      "network_id", "role", "updated_at", "user_id"})
InvitationDBSchema == {"id", "created_at", "updated_at", "deleted_at", "network_id",
                       "network", "invited_by_id", "invited_by", "user_id", "user",
                       "role"}
InvitationMethods == UNION {InvitationCreatedAt, InvitationDeletedAt, InvitationID,
                            InvitationInvitedByID, InvitationInvitedBy,
                            InvitationNetworkID, InvitationNetwork, InvitationRole,
                            InvitationUpdatedAt, InvitationUserID, InvitationUser,
                            InvitationOrder, InvitationPreload, InvitationSet}

\* NetworkQuerySet: the filters of each column, then ordering, preloading and setting.
NetworkCreatedAt == Filters("created_at", TimeOps)
NetworkCreatedByID == Filters("created_by_id", NumberOps)
NetworkCreatedBy == Filters("created_by", NullOps)
NetworkDeletedAt == Filters("deleted_at", TimeOps \cup NullOps)
NetworkDescription == Filters("description", TextOps)
NetworkID == Filters("id", NumberOps)
NetworkName == Filters("name", TextOps)
NetworkUpdatedAt == Filters("updated_at", TimeOps \cup NullOps)
NetworkOrder == Order({"created_at", "created_by_id", "deleted_at", "description",
                       "id", "name", "updated_at"})
NetworkPreload == Preload({"created_by"})
NetworkSet == Set({"created_at", "created_by_id", "deleted_at", "description", "id",
                   "name", "updated_at"})
NetworkDBSchema == {"id", "created_at", "updated_at", "deleted_at", "created_by_id",
                    "created_by", "name", "description"}
NetworkMethods == UNION {NetworkCreatedAt, NetworkCreatedByID, NetworkCreatedBy,
                         NetworkDeletedAt, NetworkDescription, NetworkID,
                         NetworkName, NetworkUpdatedAt, NetworkOrder, NetworkPreload,
                         NetworkSet}

\* NetworkUserQuerySet: the filters of each column, then ordering, preloading and setting.
NetworkUserCreatedAt == Filters("created_at", TimeOps)
NetworkUserDeletedAt == Filters("deleted_at", TimeOps \cup NullOps)
NetworkUserID == Filters("id", NumberOps)
NetworkUserNetworkID == Filters("network_id", NumberOps)
NetworkUserNetwork == Filters("network", NullOps)
NetworkUserRole == Filters("role", TextOps)
NetworkUserUpdatedAt == Filters("updated_at", TimeOps \cup NullOps)
NetworkUserUserID == Filters("user_id", NumberOps)
NetworkUserUser == Filters("user", NullOps)
NetworkUserOrder == Order({"created_at", "deleted_at", "id", "network_id", "role",
                           "updated_at", "user_id"})
NetworkUserPreload == Preload({"network", "user"})
NetworkUserSet == Set({"created_at", "deleted_at", "id", "network_id", "role",
                       "updated_at", "user_id"})
NetworkUserDBSchema == {"id", "created_at", "updated_at", "deleted_at", "user_id",
                        "user", "network_id", "network", "role"}
NetworkUserMethods == UNION {NetworkUserCreatedAt, NetworkUserDeletedAt,
                             NetworkUserID, NetworkUserNetworkID, NetworkUserNetwork,
                             NetworkUserRole, NetworkUserUpdatedAt,
                             NetworkUserUserID, NetworkUserUser, NetworkUserOrder,
                             NetworkUserPreload, NetworkUserSet}

\* RelayServerQuerySet: the filters of each column, then ordering, preloading and setting.
RelayServerCreatedAt == Filters("created_at", TimeOps)
RelayServerDeletedAt == Filters("deleted_at", TimeOps \cup NullOps)
RelayServerHost == Filters("host", TextOps)
RelayServerID == Filters("id", NumberOps)
RelayServerKeepaliveAt == Filters("keepalive_at", TimeOps)
RelayServerName == Filters("name", TextOps)
RelayServerPort == Filters("port", NumberOps)
RelayServerPublicKey == Filters("public_key", TextOps)
RelayServerRegion == Filters("region", TextOps)
RelayServerSTUNPort == Filters("stun_port", NumberOps)
RelayServerStartedAt == Filters("started_at", TimeOps)
RelayServerUpdatedAt == Filters("updated_at", TimeOps \cup NullOps)
RelayServerOrder == Order({"created_at", "deleted_at", "host", "id", "keepalive_at",
                           "name", "port", "public_key", "region", "stun_port",
                           "started_at", "updated_at"})
RelayServerSet == Set({"created_at", "deleted_at", "host", "id", "keepalive_at",
                       "name", "port", "public_key", "region", "stun_port",
                       "started_at", "updated_at"})
RelayServerDBSchema == {"id", "created_at", "updated_at", "deleted_at", "name",
                        "region", "host", "port", "stun_port", "public_key",
                        "started_at", "keepalive_at"}
RelayServerMethods == UNION {RelayServerCreatedAt, RelayServerDeletedAt,
                             RelayServerHost, RelayServerID, RelayServerKeepaliveAt,
                             RelayServerName, RelayServerPort, RelayServerPublicKey,
                             RelayServerRegion, RelayServerSTUNPort,
                             RelayServerStartedAt, RelayServerUpdatedAt,
                             RelayServerOrder, RelayServerSet}

\* UserQuerySet: the filters of each column, then ordering, preloading and setting.
UserAvatar == Filters("avatar", TextOps)
UserCreatedAt == Filters("created_at", TimeOps)
UserDeletedAt == Filters("deleted_at", TimeOps \cup NullOps)
UserEmail == Filters("email", TextOps)
UserHash == Filters("hash", TextOps)
UserID == Filters("id", NumberOps)
UserName == Filters("name", TextOps)
UserOrigin == Filters("origin", TextOps)
UserSalt == Filters("salt", TextOps)
UserSecretKey == Filters("secret_key", TextOps)
UserUpdatedAt == Filters("updated_at", TimeOps \cup NullOps)
UserOrder == Order({"avatar", "created_at", "deleted_at", "email", "hash", "id",
                    "name", "origin", "salt", "secret_key", "updated_at"})
UserSet == Set({"avatar", "created_at", "deleted_at", "email", "hash", "id", "name",
                "origin", "salt", "secret_key", "updated_at"})
UserDBSchema == {"id", "created_at", "updated_at", "deleted_at", "email", "avatar",
                 "name", "salt", "hash", "secret_key", "origin"}
UserMethods == UNION {UserAvatar, UserCreatedAt, UserDeletedAt, UserEmail, UserHash,
                      UserID, UserName, UserOrigin, UserSalt, UserSecretKey,
                      UserUpdatedAt, UserOrder, UserSet}

\* WechatUserQuerySet: the filters of each column, then ordering, preloading and setting.
WechatUserCity == Filters("city", TextOps)
WechatUserCreatedAt == Filters("created_at", TimeOps)
WechatUserDeletedAt == Filters("deleted_at", TimeOps \cup NullOps)
WechatUserHeadImgURL == Filters("head_img_url", TextOps)
WechatUserID == Filters("id", NumberOps)
WechatUserNickname == Filters("nickname", TextOps)
WechatUserUnionID == Filters("union_id", TextOps)
WechatUserUpdatedAt == Filters("updated_at", TimeOps \cup NullOps)
WechatUserUserID == Filters("user_id", NumberOps)
WechatUserUser == Filters("user", NullOps)
WechatUserOrder == Order({"city", "created_at", "deleted_at", "head_img_url", "id",
                          "nickname", "union_id", "updated_at", "user_id"})
WechatUserPreload == Preload({"user"})
WechatUserSet == Set({"city", "created_at", "deleted_at", "head_img_url", "id",
                      "nickname", "union_id", "updated_at", "user_id"})
WechatUserDBSchema == {"id", "created_at", "updated_at", "deleted_at", "user_id",
                       "user", "union_id", "nickname", "head_img_url", "city"}
WechatUserMethods == UNION {WechatUserCity, WechatUserCreatedAt, WechatUserDeletedAt,
                            WechatUserHeadImgURL, WechatUserID, WechatUserNickname,
                            WechatUserUnionID, WechatUserUpdatedAt, WechatUserUserID,
                            WechatUserUser, WechatUserOrder, WechatUserPreload,
                            WechatUserSet}
================================================================================
